---- MODULE Spec2Model ----
(***************************************************************************)
(* Proofreading pipeline of backend/app: the two AI checkers               *)
(* (services/checker/deepseek_checker.py, punctuation_ai_checker.py) and   *)
(* the orchestrator (routers/check.py): combined_check (batch mode) and    *)
(* check_content_stream.generate (streaming mode), batch_check_submissions *)
(* (bulk mode), check_submission, split_content_sections, the rule scanner *)
(* (services/checker/rule_checker.py) and update_submission                *)
(* (routers/submission.py).                                                *)
(*                                                                         *)
(* Specifications: Spec (direct agent call, batch and streaming mode),     *)
(* SpecBulk (bulk mode), SpecConn (streaming mode with a consumer that may *)
(* disconnect), SpecLive (direct agent call under fair scheduling),        *)
(* SpecSplit (the splitter alone), SpecRule (the rule scanner alone),      *)
(* SpecAll (Spec and SpecRule side by side), SpecBoth (one request sent to *)
(* batch mode and then to the stream) and SpecStore (the checks of stored  *)
(* submissions next to update_submission).                                 *)
(*                                                                         *)
(* Text is a sequence of tokens: "W" is the heading keyword of the first   *)
(* section, "N" the heading keyword of the second section, "s" a white     *)
(* space character, "x" any other character.                               *)
(***************************************************************************)
EXTENDS Integers, Sequences, FiniteSets, TLC

VARIABLES
    mode,          \* which entry point runs: "agent" | "batch" | "stream" | "bulk" |
                   \* "single" (check_submission) | "split" | "rule"
    content,       \* the text under check (request.text / content)
    apiKey,        \* settings.DEEPSEEK_API_KEY is set
    promptConfig,  \* json.loads of the stored "prompt_config" value
    pc,            \* position of the entry point's coroutine
    task,          \* the agent check coroutines, by launch index 1..4
    ruleOut,       \* what rule_checker.check(content) produced
    sections,      \* split_content_sections(content)
    all_issues,    \* the orchestrator's accumulator
    ai_errors,     \* combined_check's list of agent error messages
    events,        \* the events the stream has yielded so far
    ret,           \* what combined_check returned or raised
    finished,      \* batch mode: the agent coroutines in their order of completion
    nreq,          \* completion requests issued (kept for the direct agent call)
    hist,          \* replies handled, in order (kept for the direct agent call)
    \* batch_check_submissions (bulk mode)
    submission_ids,   \* request.submission_ids
    id_index,         \* how many identifiers the for loop has gone through
    success_count,
    failed_count,
    db,               \* the committed rows of table submissions, by id
    log,              \* what became of each identifier handled, in order
    loaded,           \* the row as the handler's session has read it (<<>>: none)
    \* the consumer of the stream
    conn,             \* "open" | "gone": the consumer has disconnected
    late,             \* a completion request was issued after the consumer had gone
    prior,            \* the batch run whose request was sent again to the stream
    \* RuleChecker.check
    rule_config,      \* the rule configuration: the keys stored as false
    current_section,
    item_index,
    line_index_in_section,
    last_number,
    line,             \* the stripped line of the current loop iteration
    emitted,          \* the issues the current iteration added to issues
    nlines,           \* lines consumed so far
    scan_pc           \* "idle" | "read" | "scanned" | "returned"

bulkVars == <<submission_ids, id_index, success_count, failed_count, db, log, loaded>>
connVars == <<conn, late>>
scanVars == <<rule_config, current_section, item_index, line_index_in_section,
              last_number, line, emitted, nlines, scan_pc>>

vars == <<mode, content, apiKey, promptConfig, pc, task, ruleOut, sections,
          all_issues, ai_errors, events, ret, finished, nreq, hist,
          bulkVars, connVars, scanVars, prior>>

----------------------------------------------------------------------------
(* Bounds *)

MaxEntries == 2    \* most entries in one model reply
MaxRule == 2       \* most issues the rule scanner reports

(* Program constants *)

max_retries == 1

----------------------------------------------------------------------------
(* Helpers on sequences *)

RECURSIVE SeqsUpTo(_, _)
SeqsUpTo(S, n) ==
    IF n = 0 THEN {<<>>}
    ELSE LET shorter == SeqsUpTo(S, n - 1)
         IN  shorter \cup {Append(q, x) : q \in {p \in shorter : Len(p) = n - 1}, x \in S}

Range(q) == {q[i] : i \in 1..Len(q)}

----------------------------------------------------------------------------
(* Texts and split_content_sections *)

Contents ==
    { <<"x">>,
      <<"W", "x">>,
      <<"W", "x", "N", "x", "N">>,
      <<"W", "x", "s", "N", "x", "s">>,
      <<"N", "x", "W">> }

RECURSIVE LStrip(_)
LStrip(q) == IF q # <<>> /\ Head(q) = "s" THEN LStrip(Tail(q)) ELSE q

RECURSIVE RStrip(_)
RStrip(q) ==
    IF q # <<>> /\ q[Len(q)] = "s" THEN RStrip(SubSeq(q, 1, Len(q) - 1)) ELSE q

Strip(q) == RStrip(LStrip(q))

\* content.split("N"): the pieces between the occurrences of the keyword
RECURSIVE SplitOn(_, _)
SplitOn(q, sep) ==
    IF \A i \in 1..Len(q) : q[i] # sep THEN <<q>>
    ELSE LET i == CHOOSE j \in 1..Len(q) :
                     q[j] = sep /\ \A k \in 1..(j - 1) : q[k] # sep
         IN  <<SubSeq(q, 1, i - 1)>> \o SplitOn(SubSeq(q, i + 1, Len(q)), sep)

\* variant: split at the first occurrence of the second keyword only
split_content_sections_First(c) ==
    LET parts == SplitOn(c, "N")
        found == IF "W" \in Range(c) /\ "N" \in Range(c)
                 THEN <<Strip(parts[1]),
                        <<"N">> \o Strip(SubSeq(c, Len(parts[1]) + 2, Len(c)))>>
                 ELSE <<>>
    IN  IF found = <<>> THEN <<c>> ELSE found

split_content_sections(c) ==
    LET parts == SplitOn(c, "N")
        found == IF "W" \in Range(c) /\ "N" \in Range(c) /\ Len(parts) = 2
                 THEN <<Strip(parts[1]), <<"N">> \o Strip(parts[2])>>
                 ELSE <<>>
    IN  IF found = <<>> THEN <<c>> ELSE found

----------------------------------------------------------------------------
(* Issues (schemas.CheckIssue) *)

CheckIssue(t, sev, loc, ctx, orig, sugg, src) ==
    [type |-> t, severity |-> sev, location |-> loc, context |-> ctx,
     original |-> orig, suggestion |-> sugg, source |-> src]

Key(issue) == <<issue.location, issue.original, issue.suggestion>>

\* variant: only a repetition of the element just before is dropped
Dedup_Adjacent(q) ==
    LET keep(i) == i = 1 \/ Key(q[i - 1]) # Key(q[i])
        F[i \in 0..Len(q)] ==
            IF i = 0 THEN <<>>
            ELSE IF keep(i) THEN Append(F[i - 1], q[i]) ELSE F[i - 1]
    IN  F[Len(q)]

\* the "seen" loop of combined_check and of generate: first occurrence of a key
Dedup(q) ==
    LET keep(i) == \A j \in 1..(i - 1) : Key(q[j]) # Key(q[i])
        F[i \in 0..Len(q)] ==
            IF i = 0 THEN <<>>
            ELSE IF keep(i) THEN Append(F[i - 1], q[i]) ELSE F[i - 1]
    IN  F[Len(q)]

CheckResult(issues) == [total_issues |-> Len(issues), issues |-> issues]

\* issues the rule scanner can report: two hits of one rule in one line differ
\* in their context only
RuleIssues ==
    { CheckIssue("punctuation", "error", "W1", "c1", "a", "b", "rule"),
      CheckIssue("punctuation", "error", "W1", "c2", "a", "b", "rule") }

\* rule_checker.check either returns a list or raises (config.get on a stored
\* rule configuration that is not a JSON object)
RuleOutcomes ==
    { [ok |-> TRUE, issues |-> q, msg |-> ""] : q \in SeqsUpTo(RuleIssues, MaxRule) }
    \cup { [ok |-> FALSE, issues |-> <<>>, msg |-> "no attribute get"] }

----------------------------------------------------------------------------
(* The model's replies *)

Null == "null"     \* a JSON null where a string is expected

Entry(loc, orig, sugg) ==
    [location |-> loc, context |-> "c", original |-> orig, suggestion |-> sugg]

GoodEntries == { Entry("W1", "a", "b"), Entry("N1", "c", "d") }

\* entries the post-filter drops, and one CheckIssue refuses to build
DropEntries == { Entry("W1", "a", "a"), Entry("W1", "", "b"), Entry("W1", "a", "") }
NullEntry == Entry(Null, "a", "b")

\* what json.loads makes of a candidate text
InvalidJson == [valid |-> FALSE, dict |-> FALSE, issues |-> <<>>]
ArrayJson == [valid |-> TRUE, dict |-> FALSE, issues |-> <<>>]
ObjJson(entries) == [valid |-> TRUE, dict |-> TRUE, issues |-> entries]
EmptyIssuesJson == ObjJson(<<>>)

\* a reply text: where its JSON candidate sits ("bare": the whole trimmed text is
\* {...}; "fenced_json"/"fenced": in a code block; "embedded": between the first
\* { and the last } of prose; "prose": no candidate; "empty": no text), what the
\* candidate is, and whether the text contains "[]".  "error": the call raised.
Reply(form, json, marker) == [form |-> form, json |-> json, marker |-> marker]

CallError == Reply("error", InvalidJson, FALSE)
Garbage == Reply("prose", InvalidJson, FALSE)

\* replies tried under the orchestrators
OrchReplies ==
    { CallError, Garbage, Reply("bare", EmptyIssuesJson, TRUE) }
    \cup { Reply("bare", ObjJson(<<e>>), FALSE) : e \in GoodEntries }

\* replies tried on a direct agent call
Replies ==
    OrchReplies
    \cup { Reply("bare", ObjJson(<<NullEntry>>), FALSE),
           Reply("bare", ObjJson(<<Entry("W1", "a", "a"), NullEntry>>), FALSE) }
    \cup { Reply("empty", InvalidJson, FALSE), Reply("prose", InvalidJson, TRUE),
           Reply("bare", InvalidJson, FALSE), Reply("bare", InvalidJson, TRUE),
           Reply("fenced_json", ArrayJson, FALSE), Reply("fenced", InvalidJson, FALSE),
           Reply("embedded", InvalidJson, TRUE) }
    \cup { Reply(f, ObjJson(<<e>>), FALSE) :
             f \in {"fenced_json", "fenced", "embedded"}, e \in GoodEntries }
    \cup { Reply("bare", ObjJson(q), FALSE) :
             q \in SeqsUpTo(GoodEntries \cup DropEntries, MaxEntries) }

NoJson == [found |-> FALSE, json |-> InvalidJson]
Found(json) == [found |-> TRUE, json |-> json]

\* _extract_json: the five attempts in order; each of the first four hands its
\* candidate over only if json.loads accepts it.  The unlabeled-block attempt
\* on a labeled block sees the label in front of the body, which never loads.
_extract_json(text) ==
    LET try1 == text.form = "bare" /\ text.json.valid
        try2 == text.form = "fenced_json" /\ text.json.valid
        try3 == text.form = "fenced" /\ text.json.valid
        try4 == /\ text.form \in {"bare", "fenced_json", "fenced", "embedded"}
                /\ text.json.valid
        try5 == text.marker
    IN  IF text.form = "empty" THEN NoJson
        ELSE IF try1 \/ try2 \/ try3 \/ try4 THEN Found(text.json)
        ELSE IF try5 THEN Found(EmptyIssuesJson)
        ELSE NoJson

----------------------------------------------------------------------------
(* One attempt of DeepSeekChecker.check / PunctuationAIChecker.check *)

IssueType(role) == IF role = "typo" THEN "typo" ELSE "punctuation"
IssueSeverity(role) == IF role = "typo" THEN "warning" ELSE "error"
IssueSource(role) == IF role = "typo" THEN "ai_typo" ELSE "ai_punctuation"

MsgNoJson == "AI reply format error, cannot parse JSON"
MsgDecode(role) == IF role = "typo" THEN "AI typo check reply format error"
                   ELSE "AI punctuation check reply format error"
MsgFailed(role) == IF role = "typo" THEN "AI typo check failed"
                   ELSE "AI punctuation check failed"
MsgValidation == "validation error for CheckIssue"
MsgNoGet == "object has no attribute get"

Returned(issues) == [kind |-> "list", issues |-> issues, msg |-> ""]
Raised(exc, msg) == [kind |-> exc, issues |-> <<>>, msg |-> msg]
Pending == [kind |-> "none", issues |-> <<>>, msg |-> ""]
Retry == [kind |-> "retry", issues |-> <<>>, msg |-> ""]

\* the loop over result.get("issues", []): entries whose key was seen are
\* skipped, then entries with an empty or unchanged original/suggestion
\* variant: the loop only skips entries whose key was seen
Survivors_DedupOnly(entries) ==
    LET key(e) == <<e.location, e.original, e.suggestion>>
        fresh(i) == \A j \in 1..(i - 1) : key(entries[j]) # key(entries[i])
        F[i \in 0..Len(entries)] ==
            IF i = 0 THEN <<>>
            ELSE IF fresh(i) THEN Append(F[i - 1], entries[i]) ELSE F[i - 1]
    IN  F[Len(entries)]

Survivors(entries) ==
    LET key(e) == <<e.location, e.original, e.suggestion>>
        fresh(i) == \A j \in 1..(i - 1) : key(entries[j]) # key(entries[i])
        kept(i) == /\ fresh(i)
                   /\ entries[i].original # ""
                   /\ entries[i].suggestion # ""
                   /\ entries[i].original # entries[i].suggestion
        F[i \in 0..Len(entries)] ==
            IF i = 0 THEN <<>>
            ELSE IF kept(i) THEN Append(F[i - 1], entries[i]) ELSE F[i - 1]
    IN  F[Len(entries)]

ToIssue(role, e) ==
    CheckIssue(IssueType(role), IssueSeverity(role), e.location, e.context,
               e.original, e.suggestion, IssueSource(role))

\* the three except clauses
OnJSONDecodeError(role, rc) ==
    IF rc < max_retries THEN Retry ELSE Raised("ValueError", MsgDecode(role))

\* variant: an exhausted retry degrades to an empty list
OnException_Silent(role, rc) ==
    IF rc < max_retries THEN Retry ELSE Returned(<<>>)

\* variant: a failure of the call is not retried
OnException_NoRetry(role, rc) == Raised("ValueError", MsgFailed(role))

OnException(role, rc) ==
    IF rc < max_retries THEN Retry ELSE Raised("ValueError", MsgFailed(role))

\* the try block, from the reply of the completion request on
Attempt(role, reply, rc) ==
    IF reply.form = "error" THEN OnException(role, rc)
    ELSE LET json_text == _extract_json(reply) IN
         IF ~json_text.found
         THEN IF rc < max_retries THEN Retry ELSE Raised("ValueError", MsgNoJson)
         ELSE IF ~json_text.json.valid THEN OnJSONDecodeError(role, rc)
         ELSE IF ~json_text.json.dict THEN OnException(role, rc)
         ELSE LET kept == Survivors(json_text.json.issues) IN
              IF \E i \in 1..Len(kept) : kept[i].location = Null
              THEN Raised("ValueError", MsgValidation)
              ELSE Returned([i \in 1..Len(kept) |-> ToIssue(role, kept[i])])

----------------------------------------------------------------------------
(* State *)

Tasks == 1..4      \* launch order: section A typo, A punct, section B typo, B punct
Role(t) == IF t \in {1, 3} THEN "typo" ELSE "punct"

Modes == {"agent", "batch", "stream"}

\* the stored prompt configuration after json.loads: a JSON object with the two
\* enable flags (the defaults when nothing is stored), or some other JSON value
PromptDict(typo, punct) ==
    [dict |-> TRUE, check_typo |-> typo, check_punctuation_semantic |-> punct]
NonDictConfig ==
    [dict |-> FALSE, check_typo |-> TRUE, check_punctuation_semantic |-> TRUE]
DEFAULT_PROMPT_CONFIG == PromptDict(TRUE, TRUE)

\* (credential present, prompt configuration)
Settings ==
    { <<TRUE, DEFAULT_PROMPT_CONFIG>>, <<TRUE, PromptDict(FALSE, TRUE)>>,
      <<TRUE, PromptDict(TRUE, FALSE)>>, <<TRUE, NonDictConfig>>,
      <<FALSE, DEFAULT_PROMPT_CONFIG>>, <<FALSE, NonDictConfig>> }

NotRun == [ok |-> FALSE, issues |-> <<>>, msg |-> "not run"]
IdleTask == [pc |-> "idle", retry_count |-> 0, result |-> Pending]

Event(step, kind, error, result) ==
    [step |-> step, kind |-> kind, error |-> error, result |-> result]

StepName(k) == <<"typo_weekly", "punct_weekly", "typo_next", "punct_next">>[k]

\* table submissions (a column that is null holds <<>>, a set one <<value>>):
\* row 1 has plain texts; the weekly work of row 2 mentions
\* the heading keyword of the second section; no row has id 3
Row(weekly_work, next_week_plan) ==
    [weekly_work |-> weekly_work, next_week_plan |-> next_week_plan,
     status |-> "submitted", check_result |-> <<>>]
Database ==
    (1 :> Row(<<"x">>, <<"x">>)) @@ (2 :> Row(<<"x", "N", "x">>, <<"x">>))

\* the state of the entry points that do not run
BulkIdle ==
    /\ submission_ids = <<>>
    /\ id_index = 0
    /\ success_count = 0
    /\ failed_count = 0
    /\ db = Database
    /\ log = <<>>
    /\ loaded = <<>>
ConnIdle == conn = "open" /\ late = FALSE
ScanIdle ==
    /\ rule_config = {}
    /\ current_section = ""
    /\ item_index = 0
    /\ line_index_in_section = 0
    /\ last_number = 0
    /\ line = <<>>
    /\ emitted = <<>>
    /\ nlines = 0
    /\ scan_pc = "idle"

Init ==
    /\ mode \in Modes
    /\ content \in Contents
    /\ \E st \in Settings : apiKey = st[1] /\ promptConfig = st[2]
    /\ pc = "start"
    /\ task = [t \in Tasks |-> IdleTask]
    /\ ruleOut = NotRun
    /\ sections = <<>>
    /\ all_issues = <<>>
    /\ ai_errors = <<>>
    /\ events = <<>>
    /\ ret = Pending
    /\ finished = <<>>
    /\ nreq = 0
    /\ hist = <<>>
    /\ BulkIdle
    /\ ConnIdle
    /\ ScanIdle
    /\ prior = <<>>

----------------------------------------------------------------------------
(* DeepSeekChecker.check / PunctuationAIChecker.check as a coroutine *)

Enabled(role) ==
    IF role = "typo" THEN promptConfig.check_typo
    ELSE promptConfig.check_punctuation_semantic

\* variant: the request goes out before the credential and the flag are looked at
AgentStart_Unconditional(t) ==
    /\ task[t].pc = "start"
    /\ task' = [task EXCEPT ![t].pc = "call"]
    /\ nreq' = IF mode = "agent" THEN nreq + 1 ELSE nreq
    /\ finished' = finished
    /\ late' = (late \/ conn = "gone")
    /\ UNCHANGED <<bulkVars, scanVars, conn, prior, mode, content, apiKey, promptConfig, pc, ruleOut, sections,
                   all_issues, ai_errors, events, ret, hist>>

\* entry of check up to the completion request: the short circuits, then the
\* request goes out
AgentStart(t) ==
    /\ task[t].pc = "start"
    /\ IF ~apiKey
       THEN /\ task' = [task EXCEPT ![t].pc = "done", ![t].result = Returned(<<>>)]
            /\ nreq' = nreq
       ELSE IF ~promptConfig.dict
       THEN /\ task' = [task EXCEPT ![t].pc = "done",
                                    ![t].result = Raised("AttributeError", MsgNoGet)]
            /\ nreq' = nreq
       ELSE IF ~Enabled(Role(t))
       THEN /\ task' = [task EXCEPT ![t].pc = "done", ![t].result = Returned(<<>>)]
            /\ nreq' = nreq
       ELSE /\ task' = [task EXCEPT ![t].pc = "call"]
            /\ nreq' = IF mode = "agent" THEN nreq + 1 ELSE nreq
    /\ finished' = IF mode = "batch" /\ task'[t].pc = "done"
                   THEN Append(finished, t) ELSE finished
    /\ late' = (late \/ (conn = "gone" /\ task'[t].pc = "call"))
    /\ UNCHANGED <<bulkVars, scanVars, conn, prior, mode, content, apiKey, promptConfig, pc, ruleOut, sections,
                   all_issues, ai_errors, events, ret, hist>>

\* the completion request comes back (or raises) and the attempt runs to its
\* return, its raise, or the recursive call; a return or raise leaves through
\* every frame of check, so no retry_count is left
AgentReply(t, reply) ==
    /\ task[t].pc = "call"
    /\ LET o == Attempt(Role(t), reply, task[t].retry_count) IN
       task' = IF o.kind = "retry"
               THEN [task EXCEPT ![t].pc = "start",
                                 ![t].retry_count = task[t].retry_count + 1]
               ELSE [task EXCEPT ![t].pc = "done", ![t].retry_count = 0,
                                 ![t].result = o]
    /\ hist' = IF mode = "agent" THEN Append(hist, reply) ELSE hist
    /\ finished' = IF mode = "batch" /\ task'[t].pc = "done"
                   THEN Append(finished, t) ELSE finished
    /\ UNCHANGED <<bulkVars, scanVars, connVars, prior, mode, content, apiKey, promptConfig, pc, ruleOut, sections,
                   all_issues, ai_errors, events, ret, nreq>>

AgentStep ==
    \E t \in Tasks :
        \/ AgentStart(t)
        \/ \E reply \in (IF mode = "agent" THEN Replies ELSE OrchReplies) :
               AgentReply(t, reply)

----------------------------------------------------------------------------
(* A direct call of check(section) on one of the two checkers *)

DirectCall(t) ==
    /\ mode = "agent"
    /\ pc = "start"
    /\ t \in {1, 2}
    /\ task' = [task EXCEPT ![t].pc = "start"]
    /\ pc' = "wait"
    /\ UNCHANGED <<bulkVars, scanVars, connVars, prior, mode, content, apiKey, promptConfig, ruleOut, sections,
                   all_issues, ai_errors, events, ret, finished, nreq, hist>>

DirectReturn(t) ==
    /\ mode = "agent"
    /\ pc = "wait"
    /\ task[t].pc = "done"
    /\ ret' = task[t].result
    /\ pc' = "done"
    /\ UNCHANGED <<bulkVars, scanVars, connVars, prior, mode, content, apiKey, promptConfig, task, ruleOut, sections,
                   all_issues, ai_errors, events, nreq, hist, finished>>

----------------------------------------------------------------------------
(* combined_check (batch mode) *)

Launched == 1..(2 * Len(sections))

\* "; ".join(msgs)
RECURSIVE Join(_)
Join(msgs) ==
    IF msgs = <<>> THEN ""
    ELSE IF Len(msgs) = 1 THEN msgs[1]
    ELSE msgs[1] \o "; " \o Join(Tail(msgs))

\* variant: a message already collected is not collected again
RECURSIVE ErrorsOf_Distinct(_, _)
ErrorsOf_Distinct(results, n) ==
    IF n = 0 THEN <<>>
    ELSE LET earlier == ErrorsOf_Distinct(results, n - 1)
         IN  earlier
             \o (IF results[n].kind = "ValueError" /\ results[n].msg \notin Range(earlier)
                 THEN <<results[n].msg>> ELSE <<>>)

\* the loop over ai_results: the messages of the ValueErrors, in task order
RECURSIVE ErrorsOf(_, _)
ErrorsOf(results, n) ==
    IF n = 0 THEN <<>>
    ELSE ErrorsOf(results, n - 1)
         \o (IF results[n].kind = "ValueError" THEN <<results[n].msg>> ELSE <<>>)

\* variant: the lists in the order in which the calls completed
RECURSIVE ListsOf_Completion(_, _)
ListsOf_Completion(results, n) ==
    IF n = 0 THEN <<>>
    ELSE ListsOf_Completion(results, n - 1)
         \o (IF results[finished[n]].kind = "list"
             THEN results[finished[n]].issues ELSE <<>>)

\* the loop over ai_results: the lists, in task order; any other exception is
\* logged and skipped
RECURSIVE ListsOf(_, _)
ListsOf(results, n) ==
    IF n = 0 THEN <<>>
    ELSE ListsOf(results, n - 1)
         \o (IF results[n].kind = "list" THEN results[n].issues ELSE <<>>)

\* rule check, split, creation of the agent coroutines, gather
\* variant: one agent check per section
BatchRule_OnePerSection(o) ==
    /\ mode \in {"batch", "bulk", "single"}
    /\ pc = "start"
    /\ ruleOut' = o
    /\ IF o.ok
       THEN /\ all_issues' = all_issues \o o.issues
            /\ sections' = split_content_sections(content)
            /\ task' = [t \in Tasks |->
                          IF t <= Len(sections')
                          THEN [task[t] EXCEPT !.pc = "start"] ELSE task[t]]
            /\ pc' = "gather"
            /\ ret' = ret
       ELSE /\ ret' = Raised("AttributeError", o.msg)
            /\ pc' = "done"
            /\ UNCHANGED <<all_issues, sections, task>>
    /\ UNCHANGED <<bulkVars, scanVars, connVars, prior, mode, content, apiKey, promptConfig, ai_errors, events, nreq, hist, finished>>

BatchRule(o) ==
    /\ mode \in {"batch", "bulk", "single"}
    /\ pc = "start"
    /\ ruleOut' = o
    /\ IF o.ok
       THEN /\ all_issues' = all_issues \o o.issues
            /\ sections' = split_content_sections(content)
            /\ task' = [t \in Tasks |->
                          IF t <= 2 * Len(sections')
                          THEN [task[t] EXCEPT !.pc = "start"] ELSE task[t]]
            /\ pc' = "gather"
            /\ ret' = ret
       ELSE /\ ret' = Raised("AttributeError", o.msg)
            /\ pc' = "done"
            /\ UNCHANGED <<all_issues, sections, task>>
    /\ UNCHANGED <<bulkVars, scanVars, connVars, prior, mode, content, apiKey, promptConfig, ai_errors, events, nreq, hist, finished>>

\* variant: the agent errors are collected but the result is returned anyway
BatchGather_Partial ==
    /\ mode \in {"batch", "bulk", "single"}
    /\ pc = "gather"
    /\ \A t \in Launched : task[t].pc = "done"
    /\ LET results == [t \in Launched |-> task[t].result]
           n == 2 * Len(sections)
       IN  /\ ai_errors' = ai_errors \o ErrorsOf(results, n)
           /\ all_issues' = all_issues \o ListsOf(results, n)
           /\ ret' = Returned(Dedup(all_issues'))
    /\ pc' = "done"
    /\ UNCHANGED <<bulkVars, scanVars, connVars, prior, mode, content, apiKey, promptConfig, task, ruleOut, sections,
                   events, nreq, hist, finished>>

\* variant: gather without return_exceptions, the first raise ends the wait
BatchGather_FailFast ==
    /\ mode \in {"batch", "bulk", "single"}
    /\ pc = "gather"
    /\ \/ \A t \in Launched : task[t].pc = "done"
       \/ \E t \in Launched : task[t].result.kind = "ValueError"
    /\ LET results == [t \in Launched |-> task[t].result]
           n == 2 * Len(sections)
       IN  /\ ai_errors' = ai_errors \o ErrorsOf(results, n)
           /\ all_issues' = all_issues \o ListsOf(results, n)
           /\ ret' = IF ai_errors' # <<>>
                     THEN Raised("AICheckError", Join(ai_errors'))
                     ELSE Returned(Dedup(all_issues'))
    /\ pc' = "done"
    /\ UNCHANGED <<bulkVars, scanVars, connVars, prior, mode, content, apiKey, promptConfig, task, ruleOut, sections,
                   events, nreq, hist, finished>>

\* gather has every result: collect, fail on agent errors, else deduplicate
BatchGather ==
    /\ mode \in {"batch", "bulk", "single"}
    /\ pc = "gather"
    /\ \A t \in Launched : task[t].pc = "done"
    /\ LET results == [t \in Launched |-> task[t].result]
           n == 2 * Len(sections)
       IN  /\ ai_errors' = ai_errors \o ErrorsOf(results, n)
           /\ all_issues' = all_issues \o ListsOf(results, n)
           /\ ret' = IF ai_errors' # <<>>
                     THEN Raised("AICheckError", Join(ai_errors'))
                     ELSE Returned(Dedup(all_issues'))
    /\ pc' = "done"
    /\ UNCHANGED <<bulkVars, scanVars, connVars, prior, mode, content, apiKey, promptConfig, task, ruleOut, sections,
                   events, nreq, hist, finished>>

----------------------------------------------------------------------------
(* batch_check_submissions (bulk mode): combined_check on one stored
   submission after the other *)

MaxIds == 2        \* most identifiers in one request

Ids == {1, 2, 3}

\* the f-string that puts the two stored texts under their headings
Compose(weekly_work, next_week_plan) ==
    <<"W", "x", "s">> \o weekly_work \o <<"s", "s", "N", "x", "s">> \o next_week_plan

\* inputs tried under bulk mode
BulkReplies == { CallError, Reply("bare", ObjJson(<<Entry("W1", "a", "b")>>), FALSE) }
BulkRuleOutcomes == { o \in RuleOutcomes : o.issues = <<>> }

Outcome(id, what) == [id |-> id, outcome |-> what]

InitBulk ==
    /\ mode = "bulk"
    /\ content = <<>>
    /\ \E st \in Settings : apiKey = st[1] /\ promptConfig = st[2]
    /\ pc = "fetch"
    /\ task = [t \in Tasks |-> IdleTask]
    /\ ruleOut = NotRun
    /\ sections = <<>>
    /\ all_issues = <<>>
    /\ ai_errors = <<>>
    /\ events = <<>>
    /\ ret = Pending
    /\ finished = <<>>
    /\ nreq = 0
    /\ hist = <<>>
    /\ submission_ids \in SeqsUpTo(Ids, MaxIds)
    /\ id_index = 0
    /\ success_count = 0
    /\ failed_count = 0
    /\ db = Database
    /\ log = <<>>
    /\ loaded = <<>>
    /\ ConnIdle
    /\ ScanIdle
    /\ prior = <<>>

\* the select of the next identifier: the statement raises, or there is no
\* such row, or the row's texts are composed and handed to combined_check
BulkFetch(raises) ==
    /\ mode = "bulk"
    /\ pc = "fetch"
    /\ id_index < Len(submission_ids)
    /\ LET id == submission_ids[id_index + 1] IN
       IF raises \/ id \notin DOMAIN db
       THEN /\ failed_count' = failed_count + 1
            /\ id_index' = id_index + 1
            /\ log' = Append(log, Outcome(id, IF raises THEN "error" ELSE "not_found"))
            /\ UNCHANGED <<content, pc, loaded>>
       ELSE /\ content' = Compose(db[id].weekly_work, db[id].next_week_plan)
            /\ loaded' = <<db[id]>>
            /\ pc' = "start"
            /\ UNCHANGED <<failed_count, id_index, log>>
    /\ UNCHANGED <<prior, mode, apiKey, promptConfig, task, ruleOut, sections, all_issues,
                   ai_errors, events, ret, finished, nreq, hist,
                   submission_ids, success_count, db, connVars, scanVars>>

\* submission.check_result = ...; submission.status = "checked"; commit: the
\* unit of work writes the columns whose new value differs from the value the
\* session has read, and leaves the other columns of the row as they are
Flush(row, seen, issues) ==
    [row EXCEPT !.check_result = IF seen.check_result # <<CheckResult(issues)>>
                                 THEN <<CheckResult(issues)>> ELSE @,
                !.status = IF seen.status # "checked" THEN "checked" ELSE @]

\* variant: the identifier is counted as succeeded before the commit
BulkStore_CountFirst(commits) ==
    /\ mode = "bulk"
    /\ pc = "done"
    /\ LET id == submission_ids[id_index + 1] IN
       IF ret.kind = "list"
       THEN /\ success_count' = success_count + 1
            /\ failed_count' = IF commits THEN failed_count ELSE failed_count + 1
            /\ db' = IF commits
                     THEN [db EXCEPT ![id] = Flush(db[id], loaded[1], ret.issues)]
                     ELSE db
            /\ log' = Append(log, Outcome(id, IF commits THEN "stored" ELSE "error"))
       ELSE /\ failed_count' = failed_count + 1
            /\ log' = Append(log, Outcome(id, IF ret.kind = "AICheckError"
                                              THEN "check_failed" ELSE "error"))
            /\ UNCHANGED <<success_count, db>>
    /\ id_index' = id_index + 1
    /\ pc' = "fetch"
    /\ task' = [t \in Tasks |-> IdleTask]
    /\ ruleOut' = NotRun
    /\ sections' = <<>>
    /\ all_issues' = <<>>
    /\ ai_errors' = <<>>
    /\ ret' = Pending
    /\ loaded' = <<>>
    /\ UNCHANGED <<prior, mode, content, apiKey, promptConfig, events, finished, nreq, hist,
                   submission_ids, connVars, scanVars>>

\* combined_check is back: its list is stored and committed and the
\* identifier counted as succeeded, unless the commit raises; AICheckError and
\* any other exception count the identifier as failed.  The locals of the
\* finished combined_check are gone.
BulkStore(commits) ==
    /\ mode = "bulk"
    /\ pc = "done"
    /\ LET id == submission_ids[id_index + 1] IN
       IF ret.kind = "list" /\ commits
       THEN /\ db' = [db EXCEPT ![id] = Flush(db[id], loaded[1], ret.issues)]
            /\ success_count' = success_count + 1
            /\ log' = Append(log, Outcome(id, "stored"))
            /\ UNCHANGED failed_count
       ELSE /\ failed_count' = failed_count + 1
            /\ log' = Append(log, Outcome(id, IF ret.kind = "AICheckError"
                                              THEN "check_failed" ELSE "error"))
            /\ UNCHANGED <<success_count, db>>
    /\ id_index' = id_index + 1
    /\ pc' = "fetch"
    /\ task' = [t \in Tasks |-> IdleTask]
    /\ ruleOut' = NotRun
    /\ sections' = <<>>
    /\ all_issues' = <<>>
    /\ ai_errors' = <<>>
    /\ ret' = Pending
    /\ loaded' = <<>>
    /\ UNCHANGED <<prior, mode, content, apiKey, promptConfig, events, finished, nreq, hist,
                   submission_ids, connVars, scanVars>>

\* the loop is over: {"success": success_count, "failed": failed_count}
BulkReturn ==
    /\ mode = "bulk"
    /\ pc = "fetch"
    /\ id_index = Len(submission_ids)
    /\ pc' = "returned"
    /\ UNCHANGED <<prior, mode, content, apiKey, promptConfig, task, ruleOut, sections,
                   all_issues, ai_errors, events, ret, finished, nreq, hist,
                   bulkVars, connVars, scanVars>>

NextBulk ==
    \/ \E raises \in BOOLEAN : BulkFetch(raises)
    \/ \E o \in BulkRuleOutcomes : BatchRule(o)
    \/ \E t \in Tasks : AgentStart(t)
    \/ \E t \in Tasks : \E reply \in BulkReplies : AgentReply(t, reply)
    \/ BatchGather
    \/ \E commits \in BOOLEAN : BulkStore(commits)
    \/ BulkReturn

SpecBulk == InitBulk /\ [][NextBulk]_vars

----------------------------------------------------------------------------
(* check_submission, and update_submission (routers/submission.py) running
   in requests of its own beside a check of stored submissions *)

InitSingle ==
    /\ mode = "single"
    /\ content = <<>>
    /\ \E st \in Settings : apiKey = st[1] /\ promptConfig = st[2]
    /\ pc = "fetch"
    /\ task = [t \in Tasks |-> IdleTask]
    /\ ruleOut = NotRun
    /\ sections = <<>>
    /\ all_issues = <<>>
    /\ ai_errors = <<>>
    /\ events = <<>>
    /\ ret = Pending
    /\ finished = <<>>
    /\ nreq = 0
    /\ hist = <<>>
    /\ \E id \in Ids : submission_ids = <<id>>
    /\ id_index = 0
    /\ success_count = 0
    /\ failed_count = 0
    /\ db = Database
    /\ log = <<>>
    /\ loaded = <<>>
    /\ ConnIdle
    /\ ScanIdle
    /\ prior = <<>>

\* the select of check_submission: it raises, or answers 404, or the row's
\* texts are composed and handed to combined_check
SubmissionFetch(raises) ==
    /\ mode = "single"
    /\ pc = "fetch"
    /\ LET id == submission_ids[1] IN
       IF raises \/ id \notin DOMAIN db
       THEN /\ ret' = IF raises THEN Raised("Exception", "select failed")
                      ELSE Raised("HTTPException", "404 Submission not found")
            /\ log' = Append(log, Outcome(id, IF raises THEN "error" ELSE "not_found"))
            /\ pc' = "returned"
            /\ UNCHANGED <<content, loaded>>
       ELSE /\ content' = Compose(db[id].weekly_work, db[id].next_week_plan)
            /\ loaded' = <<db[id]>>
            /\ pc' = "start"
            /\ UNCHANGED <<ret, log>>
    /\ UNCHANGED <<prior, mode, apiKey, promptConfig, task, ruleOut, sections, all_issues,
                   ai_errors, events, finished, nreq, hist, submission_ids, id_index,
                   success_count, failed_count, db, connVars, scanVars>>

\* combined_check is back: AICheckError becomes the answer 500 and any other
\* exception goes on to the caller, both before anything is assigned; a list
\* is assigned to the row and committed, and returned unless the commit raises
\* variant: the answer 500 is given after the row is marked as checked
SubmissionStore_MarkOnFailure(commits) ==
    /\ mode = "single"
    /\ pc = "done"
    /\ LET id == submission_ids[1] IN
       IF ret.kind = "list"
       THEN /\ db' = IF commits THEN [db EXCEPT ![id] = Flush(db[id], loaded[1], ret.issues)]
                     ELSE db
            /\ ret' = IF commits THEN ret ELSE Raised("Exception", "commit failed")
            /\ log' = Append(log, Outcome(id, IF commits THEN "stored" ELSE "error"))
       ELSE /\ ret' = IF ret.kind = "AICheckError" THEN Raised("HTTPException", "500")
                      ELSE ret
            /\ log' = Append(log, Outcome(id, IF ret.kind = "AICheckError"
                                              THEN "check_failed" ELSE "error"))
            /\ db' = IF ret.kind = "AICheckError"
                     THEN [db EXCEPT ![id].status = "checked"] ELSE db
    /\ pc' = "returned"
    /\ loaded' = <<>>
    /\ UNCHANGED <<prior, mode, content, apiKey, promptConfig, task, ruleOut, sections,
                   all_issues, ai_errors, events, finished, nreq, hist, submission_ids,
                   id_index, success_count, failed_count, connVars, scanVars>>

SubmissionStore(commits) ==
    /\ mode = "single"
    /\ pc = "done"
    /\ LET id == submission_ids[1] IN
       IF ret.kind = "list"
       THEN /\ db' = IF commits THEN [db EXCEPT ![id] = Flush(db[id], loaded[1], ret.issues)]
                     ELSE db
            /\ ret' = IF commits THEN ret ELSE Raised("Exception", "commit failed")
            /\ log' = Append(log, Outcome(id, IF commits THEN "stored" ELSE "error"))
       ELSE /\ ret' = IF ret.kind = "AICheckError" THEN Raised("HTTPException", "500")
                      ELSE ret
            /\ log' = Append(log, Outcome(id, IF ret.kind = "AICheckError"
                                              THEN "check_failed" ELSE "error"))
            /\ db' = db
    /\ pc' = "returned"
    /\ loaded' = <<>>
    /\ UNCHANGED <<prior, mode, content, apiKey, promptConfig, task, ruleOut, sections,
                   all_issues, ai_errors, events, finished, nreq, hist, submission_ids,
                   id_index, success_count, failed_count, connVars, scanVars>>

\* what an update request carries for weekly_work and next_week_plan: <<>> is
\* a field left out of the request
NewText == <<"y">>
Updates == { <<<<>>, <<>>>>, <<<<NewText>>, <<>>>>, <<<<>>, <<NewText>>>> }

\* the row still holds the texts it was created with
Unedited(id) ==
    /\ db[id].weekly_work = Database[id].weekly_work
    /\ db[id].next_week_plan = Database[id].next_week_plan

\* update_submission of another request, in a session of its own: the texts
\* given are written, and if one is given the result is cleared and the status
\* set back; each row is edited once while the check runs
UpdateSubmission(id, update) ==
    /\ mode \in {"bulk", "single"}
    /\ pc # "returned"
    /\ id \in DOMAIN db
    /\ Unedited(id)
    /\ LET weekly_work == update[1]
           next_week_plan == update[2]
           texts == weekly_work # <<>> \/ next_week_plan # <<>>
       IN  db' = [db EXCEPT
                    ![id].weekly_work = IF weekly_work # <<>> THEN weekly_work[1] ELSE @,
                    ![id].next_week_plan =
                        IF next_week_plan # <<>> THEN next_week_plan[1] ELSE @,
                    ![id].check_result = IF texts THEN <<>> ELSE @,
                    ![id].status = IF texts THEN "submitted" ELSE @]
    /\ UNCHANGED <<prior, mode, content, apiKey, promptConfig, pc, task, ruleOut, sections,
                   all_issues, ai_errors, events, ret, finished, nreq, hist,
                   submission_ids, id_index, success_count, failed_count, log, loaded,
                   connVars, scanVars>>

\* the credential is set and the stored prompt configuration is the default
InitStore == (InitBulk \/ InitSingle) /\ apiKey /\ promptConfig = DEFAULT_PROMPT_CONFIG

NextStore ==
    \/ NextBulk
    \/ \E raises \in BOOLEAN : SubmissionFetch(raises)
    \/ \E commits \in BOOLEAN : SubmissionStore(commits)
    \/ \E id \in Range(submission_ids) : \E update \in Updates : UpdateSubmission(id, update)

SpecStore == InitStore /\ [][NextStore]_vars

----------------------------------------------------------------------------
(* check_content_stream.generate (streaming mode) *)

\* the finish of stage k yields nothing: a typo check that returned
Silent(k) == Role(k) = "typo" /\ task[k].result.kind = "list"

\* yield of the rule start event; the rule check begins
StreamRuleStart ==
    /\ mode = "stream"
    /\ conn = "open"
    /\ pc = "start"
    /\ events' = Append(events, Event("rule", "start", "", <<>>))
    /\ pc' = "rule"
    /\ UNCHANGED <<bulkVars, scanVars, connVars, prior, mode, content, apiKey, promptConfig, task, ruleOut, sections,
                   all_issues, ai_errors, ret, nreq, hist, finished>>

\* variant: a failure of the rule check ends the stream after its error event
StreamRuleFinish_Abort(o) ==
    /\ mode = "stream"
    /\ conn = "open"
    /\ pc = "rule"
    /\ ruleOut' = o
    /\ IF o.ok
       THEN /\ all_issues' = all_issues \o o.issues
            /\ events' = Append(events, Event("rule", "completed", "", <<>>))
            /\ pc' = "stages"
       ELSE /\ all_issues' = all_issues
            /\ events' = Append(events, Event("rule", "error", o.msg, <<>>))
            /\ pc' = "done"
    /\ sections' = split_content_sections(content)
    /\ UNCHANGED <<bulkVars, scanVars, connVars, prior, mode, content, apiKey, promptConfig, task, ai_errors, ret,
                   nreq, hist, finished>>

\* the rule check returns or raises; then the split
StreamRuleFinish(o) ==
    /\ mode = "stream"
    /\ conn = "open"
    /\ pc = "rule"
    /\ ruleOut' = o
    /\ IF o.ok
       THEN /\ all_issues' = all_issues \o o.issues
            /\ events' = Append(events, Event("rule", "completed", "", <<>>))
       ELSE /\ all_issues' = all_issues
            /\ events' = Append(events, Event("rule", "error", o.msg, <<>>))
    /\ sections' = split_content_sections(content)
    /\ pc' = "stages"
    /\ UNCHANGED <<bulkVars, scanVars, connVars, prior, mode, content, apiKey, promptConfig, task, ai_errors, ret,
                   nreq, hist, finished>>

\* variant: a stage starts without waiting for the stage before it
StreamStageStart_Eager(k) ==
    /\ mode = "stream"
    /\ conn = "open"
    /\ pc = "stages"
    /\ k \in Launched
    /\ task[k].pc = "idle"
    /\ k > 1 => task[k - 1].pc # "idle"
    /\ events' = Append(events, Event(StepName(k), "start", "", <<>>))
    /\ task' = [task EXCEPT ![k].pc = "start"]
    /\ UNCHANGED <<bulkVars, scanVars, connVars, prior, mode, content, apiKey, promptConfig, pc, ruleOut, sections,
                   all_issues, ai_errors, ret, nreq, hist, finished>>

\* yield of the start event of stage k; its agent call begins
StreamStageStart(k) ==
    /\ mode = "stream"
    /\ conn = "open"
    /\ pc = "stages"
    /\ k \in Launched
    /\ task[k].pc = "idle"
    /\ k > 1 => task[k - 1].pc = "joined"
    /\ events' = Append(events, Event(StepName(k), "start", "", <<>>))
    /\ task' = [task EXCEPT ![k].pc = "start"]
    /\ UNCHANGED <<bulkVars, scanVars, connVars, prior, mode, content, apiKey, promptConfig, pc, ruleOut, sections,
                   all_issues, ai_errors, ret, nreq, hist, finished>>

\* variant: the exception of an agent call leaves the generator
StreamStageFinish_Abort(k) ==
    /\ mode = "stream"
    /\ pc = "stages"
    /\ task[k].pc = "done"
    /\ conn = "gone" => Silent(k)
    /\ IF task[k].result.kind = "list"
       THEN /\ all_issues' = all_issues \o task[k].result.issues
            /\ events' = IF Role(k) = "punct"
                         THEN Append(events, Event(StepName(k), "completed", "", <<>>))
                         ELSE events
            /\ pc' = pc
       ELSE /\ all_issues' = all_issues
            /\ events' = events
            /\ pc' = "done"
    /\ task' = [task EXCEPT ![k].pc = "joined"]
    /\ UNCHANGED <<bulkVars, scanVars, connVars, prior, mode, content, apiKey, promptConfig, ruleOut, sections,
                   ai_errors, ret, nreq, hist, finished>>

\* variant: the exception of an agent call is swallowed without an event
StreamStageFinish_Quiet(k) ==
    /\ mode = "stream"
    /\ pc = "stages"
    /\ task[k].pc = "done"
    /\ conn = "gone" => Silent(k)
    /\ IF task[k].result.kind = "list"
       THEN /\ all_issues' = all_issues \o task[k].result.issues
            /\ events' = IF Role(k) = "punct"
                         THEN Append(events, Event(StepName(k), "completed", "", <<>>))
                         ELSE events
       ELSE /\ all_issues' = all_issues
            /\ events' = events
    /\ task' = [task EXCEPT ![k].pc = "joined"]
    /\ UNCHANGED <<bulkVars, scanVars, connVars, prior, mode, content, apiKey, promptConfig, pc, ruleOut, sections,
                   ai_errors, ret, nreq, hist, finished>>

\* the agent call of stage k returns or raises
\* variant: the issues of a stage are put in front of the accumulator
StreamStageFinish_Prepend(k) ==
    /\ mode = "stream"
    /\ pc = "stages"
    /\ task[k].pc = "done"
    /\ conn = "gone" => Silent(k)
    /\ IF task[k].result.kind = "list"
       THEN /\ all_issues' = task[k].result.issues \o all_issues
            /\ events' = IF Role(k) = "punct"
                         THEN Append(events, Event(StepName(k), "completed", "", <<>>))
                         ELSE events
       ELSE /\ all_issues' = all_issues
            /\ events' = Append(events, Event(StepName(k), "error",
                                              task[k].result.msg, <<>>))
    /\ task' = [task EXCEPT ![k].pc = "joined"]
    /\ UNCHANGED <<bulkVars, scanVars, connVars, prior, mode, content, apiKey, promptConfig, pc, ruleOut, sections,
                   ai_errors, ret, nreq, hist, finished>>

StreamStageFinish(k) ==
    /\ mode = "stream"
    /\ pc = "stages"
    /\ task[k].pc = "done"
    /\ conn = "gone" => Silent(k)
    /\ IF task[k].result.kind = "list"
       THEN /\ all_issues' = all_issues \o task[k].result.issues
            /\ events' = IF Role(k) = "punct"
                         THEN Append(events, Event(StepName(k), "completed", "", <<>>))
                         ELSE events
       ELSE /\ all_issues' = all_issues
            /\ events' = Append(events, Event(StepName(k), "error",
                                              task[k].result.msg, <<>>))
    /\ task' = [task EXCEPT ![k].pc = "joined"]
    /\ UNCHANGED <<bulkVars, scanVars, connVars, prior, mode, content, apiKey, promptConfig, pc, ruleOut, sections,
                   ai_errors, ret, nreq, hist, finished>>

\* variant: the done event carries the collected issues as they are
StreamDone_NoDedup ==
    /\ mode = "stream"
    /\ conn = "open"
    /\ pc = "stages"
    /\ task[2 * Len(sections)].pc = "joined"
    /\ events' = Append(events, Event("done", "completed", "",
                                      <<CheckResult(all_issues)>>))
    /\ pc' = "done"
    /\ UNCHANGED <<bulkVars, scanVars, connVars, prior, mode, content, apiKey, promptConfig, task, ruleOut, sections,
                   all_issues, ai_errors, ret, nreq, hist, finished>>

\* deduplication and the done event
StreamDone ==
    /\ mode = "stream"
    /\ conn = "open"
    /\ pc = "stages"
    /\ task[2 * Len(sections)].pc = "joined"
    /\ events' = Append(events, Event("done", "completed", "",
                                      <<CheckResult(Dedup(all_issues))>>))
    /\ pc' = "done"
    /\ UNCHANGED <<bulkVars, scanVars, connVars, prior, mode, content, apiKey, promptConfig, task, ruleOut, sections,
                   all_issues, ai_errors, ret, nreq, hist, finished>>

----------------------------------------------------------------------------
(* The consumer of the stream goes away.  generate never looks at the
   connection; the response object that iterates it (StreamingResponse) either
   cancels the generator where it awaits or stops resuming it at a yield. *)

StreamDisconnect ==
    /\ mode = "stream"
    /\ conn = "open"
    /\ pc # "done"
    /\ conn' = "gone"
    /\ UNCHANGED <<bulkVars, scanVars, late, prior, mode, content, apiKey, promptConfig, pc,
                   task, ruleOut, sections, all_issues, ai_errors, events, ret,
                   finished, nreq, hist>>

\* the generator is cancelled while it awaits the rule check or an agent call
StreamCancel ==
    /\ mode = "stream"
    /\ conn = "gone"
    /\ \/ pc = "rule"
       \/ pc = "stages" /\ \E k \in Launched : task[k].pc \in {"start", "call"}
    /\ task' = [k \in Tasks |-> IF task[k].pc \in {"start", "call"}
                                THEN [task[k] EXCEPT !.pc = "cancelled"] ELSE task[k]]
    /\ pc' = "closed"
    /\ UNCHANGED <<bulkVars, scanVars, connVars, prior, mode, content, apiKey, promptConfig,
                   ruleOut, sections, all_issues, ai_errors, events, ret,
                   finished, nreq, hist>>

\* the generator has reached a yield and is not resumed
StreamClose ==
    /\ mode = "stream"
    /\ conn = "gone"
    /\ \/ pc = "start"
       \/ /\ pc = "stages"
          /\ \A k \in Launched : task[k].pc \in {"idle", "joined"}
                                 \/ (task[k].pc = "done" /\ ~Silent(k))
    /\ pc' = "closed"
    /\ UNCHANGED <<bulkVars, scanVars, connVars, prior, mode, content, apiKey, promptConfig,
                   task, ruleOut, sections, all_issues, ai_errors, events, ret,
                   finished, nreq, hist>>

InitConn == Init /\ mode = "stream"

NextConn ==
    \/ \E t \in Tasks : AgentStart(t)
    \/ \E t \in Tasks : \E reply \in OrchReplies : AgentReply(t, reply)
    \/ StreamRuleStart
    \/ \E o \in RuleOutcomes : StreamRuleFinish(o)
    \/ \E k \in Tasks : StreamStageStart(k)
    \/ \E k \in Tasks : StreamStageFinish(k)
    \/ StreamDone
    \/ StreamDisconnect
    \/ StreamCancel
    \/ StreamClose

SpecConn == InitConn /\ [][NextConn]_vars

----------------------------------------------------------------------------
(* split_content_sections on its own, on every short text *)

MaxText == 4       \* longest text

Texts == SeqsUpTo({"W", "N", "x", "s"}, MaxText)

InitSplit ==
    /\ mode = "split"
    /\ content \in Texts
    /\ apiKey = FALSE /\ promptConfig = DEFAULT_PROMPT_CONFIG
    /\ pc = "start"
    /\ task = [t \in Tasks |-> IdleTask]
    /\ ruleOut = NotRun
    /\ sections = <<>>
    /\ all_issues = <<>>
    /\ ai_errors = <<>>
    /\ events = <<>>
    /\ ret = Pending
    /\ finished = <<>>
    /\ nreq = 0
    /\ hist = <<>>
    /\ BulkIdle
    /\ ConnIdle
    /\ ScanIdle
    /\ prior = <<>>

Split ==
    /\ mode = "split"
    /\ pc = "start"
    /\ sections' = split_content_sections(content)
    /\ pc' = "done"
    /\ UNCHANGED <<bulkVars, scanVars, connVars, prior, mode, content, apiKey, promptConfig,
                   task, ruleOut, all_issues, ai_errors, events, ret, finished, nreq,
                   hist>>

NextSplit == Split

SpecSplit == InitSplit /\ [][NextSplit]_vars

----------------------------------------------------------------------------
(* RuleChecker (services/checker/rule_checker.py)                          *)
(*                                                                         *)
(* A line is a sequence of characters.  "1", "2" are digits, "zi", "ci"    *)
(* two Chinese characters, "s" a white space, "a" a Latin letter; the      *)
(* ASCII marks stand for themselves; the full-width marks are written      *)
(* "dun" (enumeration comma), "ju" (full stop), "dou" (comma), "fen"       *)
(* (semicolon), "mao" (colon), "tan" (exclamation mark), "wen" (question   *)
(* mark), "lp" and "rp" (parentheses).  "W" and "N" are the heading        *)
(* keywords of the two sections.                                           *)

Digits == {"0", "1", "2", "3", "4", "5", "6", "7", "8", "9"}
Han == {"zi", "ci"}                              \* [一-龥]
HanOrMark == Han \cup {"mao", "fen", "dou", "ju", "dun"}
Repeatable == {"dou", "ju", "fen", "mao", "dun"}  \* [，。；：、]

Min(a, b) == IF a < b THEN a ELSE b
Max(a, b) == IF a > b THEN a ELSE b

\* q[:n] and q[n:]
Take(q, n) == SubSeq(q, 1, Min(n, Len(q)))
Drop(q, n) == SubSeq(q, n + 1, Len(q))

\* q[a:b] of Python for 0 <= a, on 1-based sequences
Slice(q, a, b) == SubSeq(q, a + 1, Min(b, Len(q)))

\* how many characters of S stand at the front of q (a greedy S+ or S*)
RECURSIVE Lead(_, _)
Lead(q, S) == IF q # <<>> /\ Head(q) \in S THEN 1 + Lead(Tail(q), S) ELSE 0

\* p occurs in q at 1-based position i
OccursAt(q, p, i) == i >= 1 /\ i + Len(p) - 1 <= Len(q) /\ SubSeq(q, i, i + Len(p) - 1) = p

\* p in q
Contains(q, p) == \E i \in 1..(Len(q) + 1) : OccursAt(q, p, i)

\* q.count(p): occurrences that do not overlap, from the left
str_count(q, p) ==
    LET F[i \in 1..(Len(q) + 2)] ==
            IF i > Len(q) + 1 THEN 0
            ELSE IF p = <<>> THEN Len(q) + 1
            ELSE IF i > Len(q) THEN 0
            ELSE IF OccursAt(q, p, i) THEN 1 + F[i + Len(p)]
            ELSE F[i + 1]
    IN  F[1]

\* re.finditer: M[i] is the last position of the match that starts at i, or 0;
\* the search goes on behind a match
finditer(q, M) ==
    LET F[i \in 1..(Len(q) + 1)] ==
            IF i > Len(q) THEN <<>>
            ELSE IF M[i] > 0 THEN <<[start |-> i, end |-> M[i]]>> \o F[M[i] + 1]
            ELSE F[i + 1]
    IN  F[1]

\* the decimal digits of a number, and the number of a string of digits
RECURSIVE str(_)
str(n) ==
    LET d == <<"0", "1", "2", "3", "4", "5", "6", "7", "8", "9">>[(n % 10) + 1]
    IN  IF n < 10 THEN <<d>> ELSE Append(str(n \div 10), d)

RECURSIVE int(_)
int(q) ==
    IF q = <<>> THEN 0
    ELSE 10 * int(SubSeq(q, 1, Len(q) - 1))
         + (CHOOSE d \in 0..9 : str(d) = <<q[Len(q)]>>)

\* line[:n] + "..." if len(line) > n else line
Context(q, n) == IF Len(q) > n THEN Take(q, n) \o <<".", ".", ".">> ELSE q

RuleIssue(t, sev, loc, ctx, orig, sugg) == CheckIssue(t, sev, loc, ctx, orig, sugg, "rule")

_check_number_format(ln, location) ==
    LET n1 == Lead(ln, Digits)
        g1 == Take(ln, n1)
        rest == Drop(ln, n1)
        dotted == n1 > 0 /\ rest # <<>> /\ Head(rest) = "."
        \* ^(\d+)\.(\d+)\.?(.{0,3})
        n2 == IF dotted THEN Lead(Tail(rest), Digits) ELSE 0
        g2 == Take(Drop(ln, n1 + 1), n2)
        after == Drop(ln, n1 + 1 + n2)
        dot2 == after # <<>> /\ Head(after) = "."
        following_text == Take(IF dot2 THEN Tail(after) ELSE after, 3)
        duplicate_part == g1 \o <<".">> \o g2 \o (IF dot2 THEN <<".">> ELSE <<>>)
        \* ^（(\d+)） and ^\((\d+)\)
        inner == IF ln = <<>> THEN 0 ELSE Lead(Tail(ln), Digits)
        wrapped(open, close) ==
            /\ ln # <<>> /\ Head(ln) = open
            /\ inner > 0 /\ Len(ln) >= inner + 2 /\ ln[inner + 2] = close
        num == SubSeq(ln, 2, inner + 1)
        \* ^(\d+)\.\s+
        spaces == IF dotted THEN Lead(Tail(rest), {"s"}) ELSE 0
        fmt(ctx, orig, sugg) ==
            <<RuleIssue("format", "error", location, Context(ln, ctx), orig, sugg)>>
    IN  IF dotted /\ n2 > 0
        THEN fmt(30, duplicate_part \o following_text, g1 \o <<".">> \o following_text)
        ELSE IF n1 > 0 /\ rest # <<>> /\ Head(rest) = "dun"
        THEN fmt(20, g1 \o <<"dun">>, g1 \o <<".">>)
        ELSE IF n1 > 0 /\ rest # <<>> /\ Head(rest) = "ju"
        THEN fmt(20, g1 \o <<"ju">>, g1 \o <<".">>)
        ELSE IF wrapped("lp", "rp")
        THEN fmt(20, <<"lp">> \o num \o <<"rp">>, num \o <<".">>)
        ELSE IF wrapped("(", ")")
        THEN fmt(20, <<"(">> \o num \o <<")">>, num \o <<".">>)
        ELSE IF dotted /\ spaces > 0
        THEN fmt(25, Take(ln, n1 + 1 + spaces), g1 \o <<".">>)
        ELSE <<>>

\* ([一-龥])\s+([一-龥：；，。、])
_check_extra_spaces(ln, location) ==
    LET M(i) == LET k == Lead(Drop(ln, i), {"s"}) IN
                IF ln[i] \in Han /\ k > 0 /\ i + k + 1 <= Len(ln)
                   /\ ln[i + k + 1] \in HanOrMark
                THEN i + k + 1 ELSE 0
        ms == finditer(ln, [i \in 1..Len(ln) |-> M(i)])
    IN  [j \in 1..Len(ms) |->
            RuleIssue("format", "warning", location,
                      Slice(ln, Max(0, ms[j].start - 1 - 5), ms[j].end + 5),
                      SubSeq(ln, ms[j].start, ms[j].end),
                      <<ln[ms[j].start], ln[ms[j].end]>>)]

\* the concatenation of a sequence of sequences
RECURSIVE Flat(_)
Flat(qq) == IF qq = <<>> THEN <<>> ELSE Head(qq) \o Flat(Tail(qq))

\* the positions of the characters of S in q, ascending
Positions(q, S) ==
    LET M(i) == IF q[i] \in S THEN i ELSE 0
        ms == finditer(q, [i \in 1..Len(q) |-> M(i)])
    IN  [j \in 1..Len(ms) |-> ms[j].start]

punctuation_map == << <<",", "dou">>, <<";", "fen">>, <<"?", "wen">>, <<"!", "tan">> >>

\* variant: a digit on one side of the colon is enough for a time of day
_check_english_punctuation_EitherSide(ln, location) ==
    LET hit(p, eng, chn) ==
            RuleIssue("punctuation", "error", location,
                      Slice(ln, Max(0, p - 1 - 5), p + 5), <<eng>>, <<chn>>)
        mapped(k) ==
            LET ps == Positions(ln, {punctuation_map[k][1]})
            IN  [j \in 1..Len(ps) |->
                    hit(ps[j], punctuation_map[k][1], punctuation_map[k][2])]
        colons == Positions(ln, {":"})
        timeof(p) == p > 1 /\ p < Len(ln) /\ (ln[p - 1] \in Digits \/ ln[p + 1] \in Digits)
    IN  Flat([k \in 1..Len(punctuation_map) |-> mapped(k)])
        \o Flat([j \in 1..Len(colons) |->
                    IF timeof(colons[j]) THEN <<>> ELSE <<hit(colons[j], ":", "mao")>>])

_check_english_punctuation(ln, location) ==
    LET hit(p, eng, chn) ==
            RuleIssue("punctuation", "error", location,
                      Slice(ln, Max(0, p - 1 - 5), p + 5), <<eng>>, <<chn>>)
        mapped(k) ==
            LET ps == Positions(ln, {punctuation_map[k][1]})
            IN  [j \in 1..Len(ps) |->
                    hit(ps[j], punctuation_map[k][1], punctuation_map[k][2])]
        \* a colon between two digits is a time of day
        colons == Positions(ln, {":"})
        timeof(p) == p > 1 /\ p < Len(ln) /\ ln[p - 1] \in Digits /\ ln[p + 1] \in Digits
    IN  Flat([k \in 1..Len(punctuation_map) |-> mapped(k)])
        \o Flat([j \in 1..Len(colons) |->
                    IF timeof(colons[j]) THEN <<>> ELSE <<hit(colons[j], ":", "mao")>>])

\* [一-龥]/[一-龥]
_check_slash(ln, location) ==
    LET M(i) == IF i + 2 <= Len(ln) /\ ln[i] \in Han /\ ln[i + 1] = "/" /\ ln[i + 2] \in Han
                THEN i + 2 ELSE 0
        ms == finditer(ln, [i \in 1..Len(ln) |-> M(i)])
    IN  [j \in 1..Len(ms) |->
            RuleIssue("punctuation", "error", location,
                      Slice(ln, Max(0, ms[j].start - 1 - 3), ms[j].end + 3),
                      <<"/">>, <<"fen">>)]

mixed_patterns ==
    << << <<"ju", ".">>, "ju" >>,   << <<".", "ju">>, "ju" >>,
       << <<"dou", ",">>, "dou" >>, << <<",", "dou">>, "dou" >>,
       << <<"fen", ";">>, "fen" >>, << <<";", "fen">>, "fen" >> >>

_check_consecutive_punctuation(ln, location) ==
    LET hit(m, sugg) ==
            RuleIssue("punctuation", "error", location,
                      Slice(ln, Max(0, m.start - 1 - 3), m.end + 3),
                      SubSeq(ln, m.start, m.end), sugg)
        \* ([，。；：、])\1+
        R(i) == LET run == Lead(Drop(ln, i - 1), {ln[i]}) IN
                IF ln[i] \in Repeatable /\ run >= 2 THEN i + run - 1 ELSE 0
        runs == finditer(ln, [i \in 1..Len(ln) |-> R(i)])
        mixed(k) ==
            LET P(i) == IF OccursAt(ln, mixed_patterns[k][1], i) THEN i + 1 ELSE 0
                ms == finditer(ln, [i \in 1..Len(ln) |-> P(i)])
            IN  [j \in 1..Len(ms) |-> hit(ms[j], <<mixed_patterns[k][2]>>)]
    IN  [j \in 1..Len(runs) |-> hit(runs[j], <<ln[runs[j].start]>>)]
        \o Flat([k \in 1..Len(mixed_patterns) |-> mixed(k)])

_check_english_brackets(ln, location) ==
    LET hanIn(a, b) == \E i \in a..b : ln[i] \in Han
        opens == Positions(ln, {"("})
        closes == Positions(ln, {")"})
        \* line.find(')', pos) and line.rfind('(', 0, pos); 0 when there is none
        close_pos(p) == IF \E i \in p..Len(ln) : ln[i] = ")"
                        THEN CHOOSE i \in p..Len(ln) :
                                 ln[i] = ")" /\ \A j \in p..(i - 1) : ln[j] # ")"
                        ELSE 0
        open_pos(p) == IF \E i \in 1..(p - 1) : ln[i] = "("
                       THEN CHOOSE i \in 1..(p - 1) :
                                ln[i] = "(" /\ \A j \in (i + 1)..(p - 1) : ln[j] # "("
                       ELSE 0
    IN  Flat([j \in 1..Len(opens) |->
                LET p == opens[j] IN
                IF close_pos(p) > p /\ hanIn(p + 1, close_pos(p) - 1)
                THEN <<RuleIssue("punctuation", "error", location,
                                 Slice(ln, Max(0, p - 1 - 3), close_pos(p) - 1 + 4),
                                 <<"(">>, <<"lp">>)>>
                ELSE <<>>])
        \o Flat([j \in 1..Len(closes) |->
                LET p == closes[j] IN
                IF open_pos(p) > 0 /\ hanIn(open_pos(p) + 1, p - 1)
                THEN <<RuleIssue("punctuation", "error", location,
                                 Slice(ln, Max(0, p - 1 - 3), p - 1 + 4),
                                 <<")">>, <<"rp">>)>>
                ELSE <<>>])

\* the last n characters of q
Suffix(q, n) == SubSeq(q, Len(q) - n + 1, Len(q))

\* the shortest ending of two or more characters that line.count finds once
get_unique_ending(ln) ==
    LET lengths == {n \in 2..(Min(Len(ln) + 1, 20) - 1) : str_count(ln, Suffix(ln, n)) = 1}
    IN  IF lengths = {} THEN ln
        ELSE Suffix(ln, CHOOSE n \in lengths : \A k \in lengths : n <= k)

_check_ending_punctuation(ln, location) ==
    LET n1 == Lead(ln, Digits)
        bare == n1 > 0 /\ Drop(ln, n1) = <<".">>          \* ^\d+\.$
        last_char == ln[Len(ln)]
        unique_ending == get_unique_ending(ln)
        hit(sugg) ==
            <<RuleIssue("punctuation", "error", location,
                        IF Len(ln) > 15 THEN Suffix(ln, 15) ELSE ln,
                        unique_ending, sugg)>>
    IN  IF ln = <<>> \/ bare THEN <<>>
        ELSE IF last_char \in {"fen", ".", "tan"}
        THEN hit(Take(unique_ending, Len(unique_ending) - 1) \o <<"ju">>)
        ELSE IF last_char # "ju" /\ last_char \notin {"wen", "rp"}
        THEN hit(unique_ending \o <<"ju">>)
        ELSE <<>>

\* original.replace('。', '；', 1)
ReplaceFirst(q, old, new) ==
    IF old \notin Range(q) THEN q
    ELSE LET i == CHOOSE j \in 1..Len(q) : q[j] = old /\ \A k \in 1..(j - 1) : q[k] # old
         IN  [q EXCEPT ![i] = new]

_check_mid_sentence_period(ln, location) ==
    LET n1 == Lead(ln, Digits)
        marked == n1 > 0 /\ Len(ln) > n1 /\ ln[n1 + 1] \in {".", "dun", "ju"}
        \* re.sub(r'^\d+[.、。]\s*', '', line)
        text == IF marked
                THEN Drop(ln, n1 + 1 + Lead(Drop(ln, n1 + 1), {"s"}))
                ELSE ln
        \* 0-based positions of the full stops that are not the last character
        stops == LET ps == Positions(text, {"ju"})
                 IN  [j \in 1..Len(ps) |-> ps[j] - 1]
        context_str(pos) == Slice(text, Max(0, pos - 3), Min(Len(text), pos + 4))
        test_str(pos, length) ==
            LET test_start == Max(0, pos - (length - 4))
                test_end == Min(Len(text), pos + (length - 3))
            IN  IF test_start >= test_end THEN <<>> ELSE Slice(text, test_start, test_end)
        original(pos) ==
            LET lengths == {n \in Len(context_str(pos))..(Min(Len(text), pos + 10) - 1) :
                                str_count(ln, test_str(pos, n)) = 1}
            IN  IF lengths = {} THEN context_str(pos)
                ELSE test_str(pos, CHOOSE n \in lengths : \A k \in lengths : n <= k)
    IN  IF ln = <<>> \/ text = <<>> THEN <<>>
        ELSE Flat([j \in 1..Len(stops) |->
                     IF stops[j] < Len(text) - 1
                     THEN <<RuleIssue("punctuation", "error", location, Context(text, 40),
                                      original(stops[j]),
                                      ReplaceFirst(original(stops[j]), "ju", "fen"))>>
                     ELSE <<>>])

\* config.get(key, True) on the rule configuration
On(key) == key \notin rule_config

_check_line(ln, location) ==
    (IF On("check_number_format") THEN _check_number_format(ln, location) ELSE <<>>)
    \o (IF On("check_extra_spaces") THEN _check_extra_spaces(ln, location) ELSE <<>>)
    \o (IF On("check_english_punctuation")
        THEN _check_english_punctuation(ln, location) ELSE <<>>)
    \o (IF On("check_slash_to_semicolon") THEN _check_slash(ln, location) ELSE <<>>)
    \o (IF On("check_consecutive_punctuation")
        THEN _check_consecutive_punctuation(ln, location) ELSE <<>>)
    \o (IF On("check_english_brackets") THEN _check_english_brackets(ln, location) ELSE <<>>)
    \o (IF On("check_ending_punctuation")
        THEN _check_ending_punctuation(ln, location) ELSE <<>>)
    \o (IF On("check_mid_sentence_period")
        THEN _check_mid_sentence_period(ln, location) ELSE <<>>)

\* variant: the label carries the ordinal only
Location_Ordinal(section, unit, n) == unit \o ToString(n)

\* f"{current_section}第{n}条" and f"{current_section}第{n}行"
Location(section, unit, n) == section \o unit \o ToString(n)

\* the number a line starts with when a mark follows it: ^(\d+)[.、。]
number_match(ln) ==
    LET n1 == Lead(ln, Digits)
    IN  IF n1 > 0 /\ Len(ln) > n1 /\ ln[n1 + 1] \in {".", "dun", "ju"}
        THEN Take(ln, n1) ELSE <<>>

\* the issue of a numbered line whose number is not the expected one
SequenceIssue(ln, location, last) ==
    LET current_number == int(number_match(ln))
        expected == last + 1
    IN  IF number_match(ln) # <<>> /\ last > 0 /\ current_number # expected
        THEN <<RuleIssue("format", "error", location, Context(ln, 30),
                         str(current_number) \o <<".">>, str(expected) \o <<".">>)>>
        ELSE <<>>

\* the issue of a line in a section that does not start with a digit
MissingNumberIssue(ln, location) ==
    <<RuleIssue("format", "error", location, Context(ln, 30),
                IF Len(ln) > 10 THEN Take(ln, 10) ELSE ln,
                <<"1", ".">> \o (IF Len(ln) > 10 THEN Take(ln, 10) ELSE ln))>>

----------------------------------------------------------------------------
(* RuleChecker.check, one iteration of its loop over the lines per step *)

MaxLines == 3      \* most lines of one text
MaxBody == 2       \* longest body made of the core characters

RuleKeys ==
    { "check_number_format", "check_missing_number", "check_extra_spaces",
      "check_english_punctuation", "check_slash_to_semicolon",
      "check_consecutive_punctuation", "check_ending_punctuation",
      "check_english_brackets", "check_mid_sentence_period", "check_number_sequence" }

\* stored rule configurations tried: the default, and one key switched off
RuleConfigs == { {} } \cup { {k} : k \in {"check_number_format", "check_missing_number",
                                           "check_number_sequence"} }

\* what a line starts with
Markers ==
    { <<>>, <<"1", ".">>, <<"2", ".">>, <<"1", "2", ".">>, <<"1">>,
      <<"1", "dun">>, <<"2", "dun">>, <<"1", "ju">>,
      <<"(", "1", ")">>, <<"lp", "1", "rp">>,
      <<"1", ".", "1", ".">>, <<"1", ".", "1">>, <<"1", ".", "s">> }

CoreChars == {"zi", "ju", ".", "s"}

\* bodies that make the other rule families fire
Patterns ==
    { <<"zi", ",", "zi", "ju">>, <<"zi", "fen">>, <<"zi", "tan">>, <<"zi", "wen">>,
      <<"zi", "rp">>, <<"zi", "/", "ci", "ju">>, <<"a", "/", "a", "ju">>,
      <<"zi", "ju", "ju">>, <<"zi", "ju", ".", "zi">>, <<"zi", "dou", ",">>,
      <<"(", "zi", ")", "ju">>, <<"(", "a", ")", "ju">>, <<"zi", ")", "(", "ju">>,
      <<"zi", ":", "zi", "ju">>, <<"1", ":", "2", "ju">>, <<"zi", ":", "1", "ju">>,
      <<"zi", ":">>, <<"1", ":", "2", ":", "zi", "ju">>,
      <<"zi", "s", "s", "ci", "s", "dou", "ju">>,
      <<"zi", "zi", "zi", "zi", "zi", "zi", "zi", "zi", "zi", "zi", "zi", "ju">>,
      <<"zi", "zi", "zi", "zi", "ju", "zi", "zi", "zi", "zi", "ju", "zi", "ju">>,
      <<"zi", "ju", "zi", "ju", "zi">>, <<"zi", "zi", "zi">>, <<"ci", "zi", "ci", "zi">> }

Headings == { <<"W", "mao">>, <<"N", "mao">>, <<"1", ".", "zi", "N", "ju">> }

RawLines ==
    Headings
    \cup { m \o b : m \in Markers, b \in SeqsUpTo(CoreChars, MaxBody) \cup Patterns }

InitRule ==
    /\ mode = "rule"
    /\ content = <<>>
    /\ apiKey = FALSE /\ promptConfig = DEFAULT_PROMPT_CONFIG
    /\ pc = "start"
    /\ task = [t \in Tasks |-> IdleTask]
    /\ ruleOut = NotRun
    /\ sections = <<>>
    /\ all_issues = <<>>
    /\ ai_errors = <<>>
    /\ events = <<>>
    /\ ret = Pending
    /\ finished = <<>>
    /\ nreq = 0
    /\ hist = <<>>
    /\ BulkIdle
    /\ ConnIdle
    /\ rule_config \in RuleConfigs
    /\ current_section = ""
    /\ item_index = 0
    /\ line_index_in_section = 0
    /\ last_number = 0
    /\ line = <<>>
    /\ emitted = <<>>
    /\ nlines = 0
    /\ scan_pc = "read"
    /\ prior = <<>>

\* variant: the expected number advances on every itemized line
RuleLine_AlwaysAdvance(raw) ==
    /\ scan_pc = "read"
    /\ nlines < MaxLines
    /\ nlines' = nlines + 1
    /\ scan_pc' = "scanned"
    /\ line' = Strip(raw)
    /\ LET ln == Strip(raw) IN
       IF ln = <<>>
       THEN /\ emitted' = <<>>
            /\ UNCHANGED <<current_section, item_index, line_index_in_section, last_number>>
       ELSE IF "W" \in Range(ln) \/ "N" \in Range(ln)
       THEN /\ current_section' = IF "W" \in Range(ln) THEN "W" ELSE "N"
            /\ item_index' = 0
            /\ line_index_in_section' = 0
            /\ last_number' = 0
            /\ emitted' = <<>>
       ELSE /\ line_index_in_section' =
                   IF current_section # "" THEN line_index_in_section + 1
                   ELSE line_index_in_section
            /\ current_section' = current_section
            /\ IF Head(ln) \in Digits
               THEN /\ item_index' = item_index + 1
                    /\ LET location == Location(current_section, "item", item_index') IN
                       emitted' = _check_line(ln, location)
                                  \o (IF On("check_number_sequence")
                                      THEN SequenceIssue(ln, location, last_number)
                                      ELSE <<>>)
                    /\ last_number' = last_number + 1
               ELSE /\ emitted' =
                           IF current_section # "" /\ On("check_missing_number")
                           THEN MissingNumberIssue(
                                    ln, Location(current_section, "line",
                                                 line_index_in_section'))
                           ELSE <<>>
                    /\ UNCHANGED <<item_index, last_number>>
    /\ UNCHANGED <<bulkVars, connVars, rule_config, prior, mode, content, apiKey, promptConfig,
                   pc, task, ruleOut, sections, all_issues, ai_errors, events, ret,
                   finished, nreq, hist>>

\* the loop body on the next line of the text
RuleLine(raw) ==
    /\ scan_pc = "read"
    /\ nlines < MaxLines
    /\ nlines' = nlines + 1
    /\ scan_pc' = "scanned"
    /\ line' = Strip(raw)
    /\ LET ln == Strip(raw) IN
       IF ln = <<>>
       THEN /\ emitted' = <<>>
            /\ UNCHANGED <<current_section, item_index, line_index_in_section, last_number>>
       ELSE IF "W" \in Range(ln) \/ "N" \in Range(ln)
       THEN /\ current_section' = IF "W" \in Range(ln) THEN "W" ELSE "N"
            /\ item_index' = 0
            /\ line_index_in_section' = 0
            /\ last_number' = 0
            /\ emitted' = <<>>
       ELSE /\ line_index_in_section' =
                   IF current_section # "" THEN line_index_in_section + 1
                   ELSE line_index_in_section
            /\ current_section' = current_section
            /\ IF Head(ln) \in Digits
               THEN /\ item_index' = item_index + 1
                    /\ LET location == Location(current_section, "item", item_index') IN
                       emitted' = _check_line(ln, location)
                                  \o (IF On("check_number_sequence")
                                      THEN SequenceIssue(ln, location, last_number)
                                      ELSE <<>>)
                    /\ last_number' = IF On("check_number_sequence") /\ number_match(ln) # <<>>
                                      THEN last_number + 1 ELSE last_number
               ELSE /\ emitted' =
                           IF current_section # "" /\ On("check_missing_number")
                           THEN MissingNumberIssue(
                                    ln, Location(current_section, "line",
                                                 line_index_in_section'))
                           ELSE <<>>
                    /\ UNCHANGED <<item_index, last_number>>
    /\ UNCHANGED <<bulkVars, connVars, rule_config, prior, mode, content, apiKey, promptConfig,
                   pc, task, ruleOut, sections, all_issues, ai_errors, events, ret,
                   finished, nreq, hist>>

\* issues.extend / issues.append are done; the loop takes its next line
RuleNext ==
    /\ scan_pc = "scanned"
    /\ scan_pc' = "read"
    /\ line' = <<>>
    /\ emitted' = <<>>
    /\ UNCHANGED <<bulkVars, connVars, rule_config, current_section, item_index,
                   line_index_in_section, last_number, nlines, prior, mode, content, apiKey,
                   promptConfig, pc, task, ruleOut, sections, all_issues, ai_errors,
                   events, ret, finished, nreq, hist>>

\* no line is left: return issues
RuleReturn ==
    /\ scan_pc = "read"
    /\ scan_pc' = "returned"
    /\ UNCHANGED <<bulkVars, connVars, rule_config, current_section, item_index,
                   line_index_in_section, last_number, line, emitted, nlines, prior, mode,
                   content, apiKey, promptConfig, pc, task, ruleOut, sections,
                   all_issues, ai_errors, events, ret, finished, nreq, hist>>

NextRule ==
    \/ (scan_pc = "read" /\ \E raw \in RawLines : RuleLine(raw))
    \/ RuleNext
    \/ RuleReturn

SpecRule == InitRule /\ [][NextRule]_vars

----------------------------------------------------------------------------
(* A direct agent call whose steps are taken: every step of the program is
   taken when it can be.  client.chat.completions.create is awaited with no
   timeout argument, so nothing but the collaborator ends the wait: a reply is
   not a step of the program and gets no fairness. *)

InitAgent == Init /\ mode = "agent"

NextAgent ==
    \/ \E t \in Tasks : DirectCall(t)
    \/ \E t \in Tasks : AgentStart(t)
    \/ \E t \in Tasks : \E reply \in Replies : AgentReply(t, reply)
    \/ \E t \in Tasks : DirectReturn(t)

SpecLive ==
    /\ InitAgent
    /\ [][NextAgent]_vars
    /\ WF_vars(\E t \in Tasks : DirectCall(t))
    /\ WF_vars(\E t \in Tasks : AgentStart(t))
    /\ WF_vars(\E t \in Tasks : DirectReturn(t))

----------------------------------------------------------------------------

\* every entry point that produces issues: the orchestrators and the direct
\* agent call on one side, the rule scanner on the other
InitAll == Init \/ InitRule

Next ==
    \/ AgentStep
    \/ \E t \in Tasks : DirectCall(t)
    \/ \E t \in Tasks : DirectReturn(t)
    \/ \E o \in RuleOutcomes : BatchRule(o)
    \/ BatchGather
    \/ StreamRuleStart
    \/ \E o \in RuleOutcomes : StreamRuleFinish(o)
    \/ \E k \in Tasks : StreamStageStart(k)
    \/ \E k \in Tasks : StreamStageFinish(k)
    \/ StreamDone

Spec == Init /\ [][Next]_vars

NextAll == Next \/ NextRule

SpecAll == InitAll /\ [][NextAll]_vars

----------------------------------------------------------------------------
(* One request sent to check_content (batch mode) and then, with the same
   text and the same stored configuration, to check_content_stream; the rule
   scanner and the model answer the second time as they did the first. *)

InitBoth == Init /\ mode = "batch"

\* batch mode has returned a list and no agent call has failed: the request
\* goes to the stream
Resubmit ==
    /\ mode = "batch"
    /\ pc = "done"
    /\ ret.kind = "list"
    /\ \A t \in Launched : task[t].result.kind = "list"
    /\ prior' = <<[rule |-> ruleOut,
                   results |-> [t \in Launched |-> task[t].result],
                   issues |-> ret.issues]>>
    /\ mode' = "stream"
    /\ pc' = "start"
    /\ task' = [t \in Tasks |-> IdleTask]
    /\ ruleOut' = NotRun
    /\ sections' = <<>>
    /\ all_issues' = <<>>
    /\ events' = <<>>
    /\ ret' = Pending
    /\ finished' = <<>>
    /\ UNCHANGED <<bulkVars, scanVars, connVars, content, apiKey, promptConfig,
                   ai_errors, nreq, hist>>

\* the scanner is a function of the text and the stored rules
SameRuleFinish ==
    \E o \in RuleOutcomes : o = prior[1].rule /\ StreamRuleFinish(o)

\* the model's answers lead the agent to the list it returned the first time
SameReply(t) ==
    \E reply \in OrchReplies :
        /\ AgentReply(t, reply)
        /\ task'[t].pc = "done" => task'[t].result = prior[1].results[t]

NextBoth ==
    \/ \E o \in RuleOutcomes : BatchRule(o)
    \/ \E t \in Tasks : AgentStart(t)
    \/ \E t \in Tasks : \E reply \in OrchReplies : mode = "batch" /\ AgentReply(t, reply)
    \/ BatchGather
    \/ Resubmit
    \/ StreamRuleStart
    \/ (mode = "stream" /\ pc = "rule" /\ SameRuleFinish)
    \/ \E k \in Tasks : StreamStageStart(k)
    \/ \E t \in Tasks : mode = "stream" /\ task[t].pc = "call" /\ SameReply(t)
    \/ \E k \in Tasks : StreamStageFinish(k)
    \/ StreamDone

SpecBoth == InitBoth /\ [][NextBoth]_vars

----------------------------------------------------------------------------
(* Vocabulary of the properties *)

BatchDone == mode = "batch" /\ pc = "done"
StreamDoneAt == mode = "stream" /\ pc = "done"
DirectDone == mode = "agent" /\ pc = "done"

TaskRaised(t) == task[t].result.kind \in {"ValueError", "AttributeError"}
TaskReturned(t) == task[t].result.kind = "list"

\* the three ways an attempt fails and is retried
CallFailed(reply) ==
    \/ reply.form = "error"
    \/ /\ _extract_json(reply).found
       /\ _extract_json(reply).json.valid
       /\ ~_extract_json(reply).json.dict
NotExtractable(reply) == reply.form # "error" /\ ~_extract_json(reply).found
DecodeFailed(reply) ==
    /\ reply.form # "error"
    /\ _extract_json(reply).found
    /\ ~_extract_json(reply).json.valid
AttemptFailed(reply) == CallFailed(reply) \/ NotExtractable(reply) \/ DecodeFailed(reply)

\* the task of the direct call
DirectTask == CHOOSE t \in Tasks : task[t].pc # "idle"
DirectStarted == mode = "agent" /\ \E t \in Tasks : task[t].pc # "idle"

----------------------------------------------------------------------------
(* C1: a batch that returns has had every launched agent call return an
   issue list; if any agent call raised, the batch failed with the aggregate
   error and returned no issues. *)
C1_AsStated ==
    (BatchDone /\ ruleOut.ok) =>
        IF \E t \in Launched : TaskRaised(t)
        THEN ret.kind = "AICheckError" /\ ret.issues = <<>>
        ELSE ret.kind = "list"

(* C1, what combined_check does guarantee: the batch fails with the
   aggregate error and returns no issues exactly if some launched agent call
   raised ValueError; a call that raised another exception is skipped and the
   batch returns the rest. *)
C1_BatchFailsOnAgentError ==
    (BatchDone /\ ruleOut.ok) =>
        IF \E t \in Launched : task[t].result.kind = "ValueError"
        THEN ret.kind = "AICheckError" /\ ret.issues = <<>> /\ ret.msg # ""
        ELSE /\ ret.kind = "list"
             /\ \A t \in Launched : task[t].result.kind \in {"list", "AttributeError"}

C1_Witness ==
    /\ BatchDone
    /\ ruleOut.issues # <<>>
    /\ Len(sections) = 2
    /\ task[3].result.kind = "ValueError"
    /\ task[1].result.kind = "list" /\ task[1].result.issues # <<>>
    /\ ret.kind = "AICheckError"

(* C2: on a direct call of either checker, when the first attempt and the
   retry both fail (no JSON extractable, JSON decode failure or failure of the
   call, in any combination), check raises ValueError with a cause, and the
   caller gets that error and no issue list. *)
C2_RaisesAfterRetry ==
    (DirectStarted /\ Len(hist) = 2 /\ AttemptFailed(hist[1]) /\ AttemptFailed(hist[2])) =>
        /\ task[DirectTask].pc = "done"
        /\ task[DirectTask].result.kind = "ValueError"
        /\ task[DirectTask].result.msg # ""
        /\ task[DirectTask].result.issues = <<>>
        /\ pc = "done" => ret = task[DirectTask].result

C2_Witness ==
    /\ DirectDone
    /\ hist = <<Garbage, CallError>>
    /\ ret.kind = "ValueError"
    /\ ret.msg = MsgFailed("punct")

(* C3: one direct check(section) issues at most two completion requests; the
   second is issued if and only if the first attempt failed (and then the call
   cannot end before it is issued); when the second attempt yields a valid
   reply, check returns the issues of that reply, the empty list for a reply
   without issues, and does not raise. *)
C3_AtMostOneRetry ==
    DirectStarted =>
        LET t == DirectTask IN
        /\ nreq <= 2
        /\ Len(hist) <= nreq
        /\ nreq = 2 => (Len(hist) >= 1 /\ AttemptFailed(hist[1]))
        /\ (Len(hist) >= 1 /\ AttemptFailed(hist[1])) =>
               /\ task[t].pc = "done" => (nreq = 2 /\ Len(hist) = 2)
               /\ task[t].pc = "call" => nreq = 2
        /\ (Len(hist) >= 1 /\ ~AttemptFailed(hist[1])) =>
               (nreq = 1 /\ task[t].pc = "done")
        /\ (Len(hist) = 2 /\ _extract_json(hist[2]).found
              /\ _extract_json(hist[2]).json.dict
              /\ \A i \in 1..Len(_extract_json(hist[2]).json.issues) :
                     _extract_json(hist[2]).json.issues[i].location # Null) =>
               /\ task[t].pc = "done"
               /\ task[t].result.kind = "list"
               /\ Len(task[t].result.issues) <= Len(_extract_json(hist[2]).json.issues)
               /\ \A i \in 1..Len(task[t].result.issues) :
                      \E j \in 1..Len(_extract_json(hist[2]).json.issues) :
                          LET e == _extract_json(hist[2]).json.issues[j] IN
                          /\ Key(task[t].result.issues[i]) =
                                 <<e.location, e.original, e.suggestion>>
                          /\ task[t].result.issues[i].source = IssueSource(Role(t))
               /\ \A j \in 1..Len(_extract_json(hist[2]).json.issues) :
                      LET e == _extract_json(hist[2]).json.issues[j] IN
                      (e.original # "" /\ e.suggestion # "" /\ e.original # e.suggestion) =>
                          \E i \in 1..Len(task[t].result.issues) :
                              Key(task[t].result.issues[i]) =
                                  <<e.location, e.original, e.suggestion>>
               /\ _extract_json(hist[2]).json.issues = <<>> =>
                      task[t].result.issues = <<>>

C3_Witness ==
    /\ DirectDone
    /\ nreq = 2
    /\ hist = <<Garbage, Reply("bare", EmptyIssuesJson, TRUE)>>
    /\ ret = Returned(<<>>)

----------------------------------------------------------------------------
(* Streams *)

CountStep(step, kinds) ==
    Cardinality({i \in 1..Len(events) : events[i].step = step /\ events[i].kind \in kinds})

StageRank(step) ==
    CASE step = "rule" -> 0
      [] step = "typo_weekly" -> 1
      [] step = "punct_weekly" -> 2
      [] step = "typo_next" -> 3
      [] step = "punct_next" -> 4
      [] step = "done" -> 5

(* C4: a stream that has run to completion has emitted exactly one event of
   stage done, as its last event, whichever stages failed; a stream that has
   not run to completion has emitted none. *)
C4_ExactlyOneDone ==
    mode = "stream" =>
        /\ pc = "done" =>
               /\ events # <<>>
               /\ events[Len(events)].step = "done"
               /\ CountStep("done", {"start", "completed", "error"}) = 1
               /\ Len(events[Len(events)].result) = 1
        /\ pc # "done" => CountStep("done", {"start", "completed", "error"}) = 0

C4_Witness ==
    /\ StreamDoneAt
    /\ ~ruleOut.ok
    /\ Len(sections) = 2
    /\ \A t \in Tasks : TaskRaised(t)
    /\ events[Len(events)].step = "done"

(* C5: in every stream the stage tags of the events never decrease in the
   order rule, typo A, punct A, typo B, punct B, done; the section-B stages
   appear if and only if the splitter returned two sections; a stage's agent
   call starts only after the rule check and every earlier agent call have
   finished, so at most one agent call is in flight. *)
C5_StageOrder ==
    mode = "stream" =>
        /\ \A i, j \in 1..Len(events) :
               i < j => StageRank(events[i].step) <= StageRank(events[j].step)
        /\ \A i \in 1..Len(events) :
               events[i].step \in {"typo_next", "punct_next"} =>
                   Len(split_content_sections(content)) = 2
        /\ pc = "done" =>
               /\ CountStep("rule", {"start"}) = 1
               /\ CountStep("typo_weekly", {"start"}) = 1
               /\ CountStep("punct_weekly", {"start"}) = 1
               /\ Len(split_content_sections(content)) = 2 =>
                      /\ CountStep("typo_next", {"start"}) = 1
                      /\ CountStep("punct_next", {"start"}) = 1
        /\ Cardinality({t \in Tasks : task[t].pc \in {"start", "call"}}) <= 1
        /\ \A t \in Tasks :
               task[t].pc \in {"start", "call", "done"} =>
                   /\ pc = "stages"
                   /\ \A u \in 1..(t - 1) : task[u].pc = "joined"
                   /\ \A u \in (t + 1)..4 : task[u].pc = "idle"

C5_Witness ==
    /\ mode = "stream"
    /\ task[4].pc = "call"
    /\ task[3].pc = "joined"
    /\ events[Len(events)] = Event("punct_next", "start", "", <<>>)

\* the stages a stream of this text executes after the rule stage
Stages == 1..(2 * Len(split_content_sections(content)))

ErrorEvents(step) ==
    {i \in 1..Len(events) : events[i].step = step /\ events[i].kind = "error"}

(* C6: in a stream, a stage whose work raised has exactly one error event,
   tagged with that stage and carrying the message; a completed stream has
   executed every stage whichever stages failed, each later stage's start event
   coming after the error event; until it has completed, a stream can always
   take its next step. *)
C6_FailureDoesNotAbort ==
    mode = "stream" =>
        /\ (pc \in {"stages", "done"} /\ ~ruleOut.ok) =>
               /\ Cardinality(ErrorEvents("rule")) = 1
               /\ \A i \in ErrorEvents("rule") : events[i].error = ruleOut.msg
        /\ \A k \in Tasks :
               (task[k].pc = "joined" /\ TaskRaised(k)) =>
                   /\ Cardinality(ErrorEvents(StepName(k))) = 1
                   /\ \A i \in ErrorEvents(StepName(k)) :
                          events[i].error = task[k].result.msg
        /\ pc = "done" =>
               /\ \A k \in Stages : task[k].pc = "joined"
               /\ \A i \in 1..Len(events) :
                      events[i].kind = "error" =>
                          \A k \in Stages :
                              k > StageRank(events[i].step) =>
                                  \E j \in (i + 1)..Len(events) :
                                      events[j] = Event(StepName(k), "start", "", <<>>)
        /\ pc # "done" => ENABLED Next

C6_Witness ==
    /\ StreamDoneAt
    /\ Len(sections) = 2
    /\ task[1].result.kind = "ValueError"
    /\ ruleOut.ok
    /\ task[4].result.kind = "list" /\ task[4].result.issues # <<>>
    /\ Cardinality(ErrorEvents("typo_weekly")) = 1

(* C7 as stated: in a completed stream every executed stage (rule, each typo,
   each punct) has one start event and exactly one further event, a completion
   or an error event. *)
C7_AsStated ==
    StreamDoneAt =>
        \A step \in {"rule"} \cup {StepName(k) : k \in Stages} :
            /\ CountStep(step, {"start"}) = 1
            /\ CountStep(step, {"completed", "error"}) = 1

(* C7 amended: every executed stage has one start event, emitted before its
   work; after its work has finished the rule stage and each punct stage have
   exactly one further event, a completion event if the work returned and an
   error event if it raised; a typo stage has exactly one further event, an
   error event, if its work raised and no further event if it returned. *)
C7_StageEvents ==
    mode = "stream" =>
        /\ CountStep("rule", {"start"}) = (IF pc = "start" THEN 0 ELSE 1)
        /\ CountStep("rule", {"completed"}) =
               (IF pc \in {"stages", "done"} /\ ruleOut.ok THEN 1 ELSE 0)
        /\ CountStep("rule", {"error"}) =
               (IF pc \in {"stages", "done"} /\ ~ruleOut.ok THEN 1 ELSE 0)
        /\ \A k \in Tasks :
               /\ CountStep(StepName(k), {"start"}) = (IF task[k].pc = "idle" THEN 0 ELSE 1)
               /\ CountStep(StepName(k), {"error"}) =
                      (IF task[k].pc = "joined" /\ TaskRaised(k) THEN 1 ELSE 0)
               /\ CountStep(StepName(k), {"completed"}) =
                      (IF task[k].pc = "joined" /\ TaskReturned(k) /\ Role(k) = "punct"
                       THEN 1 ELSE 0)
        /\ \A i, j \in 1..Len(events) :
               (events[i].step = events[j].step /\ events[j].kind = "start") => j <= i

C7_Witness ==
    /\ StreamDoneAt
    /\ Len(sections) = 2
    /\ \A k \in Tasks : TaskReturned(k)
    /\ task[1].result.issues # <<>>
    /\ CountStep("typo_weekly", {"completed", "error"}) = 0
    /\ CountStep("punct_next", {"completed"}) = 1

\* the issues of the stages whose work returned, in stage order
RECURSIVE StageIssues(_)
StageIssues(n) ==
    IF n = 0 THEN (IF ruleOut.ok THEN ruleOut.issues ELSE <<>>)
    ELSE StageIssues(n - 1) \o (IF TaskReturned(n) THEN task[n].result.issues ELSE <<>>)

NoDuplicateKeys(issues) ==
    \A i, j \in 1..Len(issues) : i # j => Key(issues[i]) # Key(issues[j])

\* q without the elements whose key occurred earlier in q
FirstOfEachKey(q) ==
    SelectSeq([i \in 1..Len(q) |-> <<i, q[i]>>],
              LAMBDA p : \A j \in 1..(p[1] - 1) : Key(q[j]) # Key(p[2]))

(* C8: the result of the done event holds, in stage order, the issues of the
   stages whose work returned and none of a stage that raised, each
   (location, original, suggestion) kept at its first occurrence only; its
   count is the length of its list; it is empty with count 0 when every stage
   raised. *)
C8_DoneResult ==
    StreamDoneAt =>
        LET result == events[Len(events)].result[1]
            collected == StageIssues(2 * Len(sections))
            firsts == FirstOfEachKey(collected)
        IN  /\ result.issues = [i \in 1..Len(firsts) |-> firsts[i][2]]
            /\ result.total_issues = Len(result.issues)
            /\ NoDuplicateKeys(result.issues)
            /\ (~ruleOut.ok /\ \A k \in Stages : TaskRaised(k)) =>
                   (result.issues = <<>> /\ result.total_issues = 0)

C8_Witness ==
    /\ StreamDoneAt
    /\ Len(sections) = 2
    /\ Len(ruleOut.issues) = 2
    /\ task[1].result.kind = "ValueError"
    /\ TaskReturned(2) /\ task[2].result.issues # <<>>
    /\ TaskReturned(3) /\ task[3].result.issues # <<>>
    /\ Key(task[2].result.issues[1]) = Key(ruleOut.issues[1])
    /\ Key(task[3].result.issues[1]) # Key(ruleOut.issues[1])
    /\ TaskReturned(4) /\ task[4].result.issues = task[2].result.issues
    /\ events[Len(events)].result[1].total_issues = 2

(* C9: no two issues of a result returned by batch mode share their
   (location, original, suggestion), whatever the rule scanner and the agent
   calls returned. *)
C9_BatchNoDuplicates ==
    (BatchDone /\ ret.kind = "list") => NoDuplicateKeys(ret.issues)

C9_Witness ==
    /\ BatchDone
    /\ ret.kind = "list"
    /\ Len(ruleOut.issues) = 2
    /\ ruleOut.issues[1] # ruleOut.issues[2]
    /\ TaskReturned(1) /\ task[1].result.issues # <<>>
    /\ TaskReturned(2) /\ task[2].result.issues # <<>>
    /\ Key(task[1].result.issues[1]) # Key(ruleOut.issues[1])
    /\ Key(task[2].result.issues[1]) = Key(ruleOut.issues[1])
    /\ Len(ret.issues) = 2

(* C10: the list of a successful batch is the rule issues followed by the
   outputs of the agent calls in launch order, whatever the order in which the
   calls completed, with every (location, original, suggestion) kept at its
   first occurrence only. *)
C10_BatchLaunchOrder ==
    (BatchDone /\ ret.kind = "list") =>
        LET firsts == FirstOfEachKey(StageIssues(2 * Len(sections)))
        IN  /\ ret.issues = [i \in 1..Len(firsts) |-> firsts[i][2]]
            /\ Range(finished) = Launched

C10_Witness ==
    /\ BatchDone
    /\ ret.kind = "list"
    /\ finished = <<4, 3, 2, 1>>
    /\ ruleOut.issues # <<>>
    /\ \A t \in Tasks : TaskReturned(t) /\ task[t].result.issues # <<>>
    /\ Key(task[1].result.issues[1]) # Key(ruleOut.issues[1])
    /\ Key(task[2].result.issues[1]) # Key(task[1].result.issues[1])
    /\ task[3].result.issues # task[1].result.issues
    /\ Len(ret.issues) = 2
    /\ ret.issues[2] = task[1].result.issues[1]

----------------------------------------------------------------------------
(* C11: batch mode decides only after every launched agent call has
   finished: while a launched call is still running the batch has neither
   returned nor raised, and the call can take its next step whatever its
   siblings did (a sibling that raised does not cancel it); when the batch has
   decided, every launched call has finished exactly once. *)
C11_DecidesAfterAllFinished ==
    (mode = "batch" /\ ruleOut.ok) =>
        /\ \A u \in Launched :
               task[u].pc # "done" =>
                   /\ pc = "gather" /\ ret = Pending
                   /\ task[u].pc \in {"start", "call"}
                   /\ ENABLED (\/ AgentStart(u)
                               \/ \E reply \in OrchReplies : AgentReply(u, reply))
        /\ pc = "done" =>
               /\ Range(finished) = Launched
               /\ Len(finished) = 2 * Len(sections)

C11_Witness ==
    /\ BatchDone
    /\ ret.kind = "AICheckError"
    /\ Len(finished) = 4
    /\ task[finished[1]].result.kind = "ValueError"
    /\ \A i \in 2..4 : /\ TaskReturned(finished[i])
                       /\ task[finished[i]].result.issues # <<>>

----------------------------------------------------------------------------
\* occurrences of m among the joined messages
Count(q, m) == Cardinality({i \in 1..Len(q) : q[i] = m})

\* the launched calls that raised the agent error
AgentErrors == {t \in Launched : task[t].result.kind = "ValueError"}

(* C12 as claimed: the aggregate error of a failed batch is the join of the
   failure messages, and the message of every call that raised occurs in it
   exactly once. *)
C12_AsStated ==
    (BatchDone /\ ret.kind = "AICheckError") =>
        /\ ret.msg = Join(ai_errors)
        /\ \A t \in Launched :
               TaskRaised(t) => Count(ai_errors, task[t].result.msg) = 1

(* C12, what combined_check guarantees: the aggregate error of a failed batch
   is the join, in launch order, of one message per agent call that raised
   the agent error, so that a message occurs as many times as there are calls
   that failed with it. *)
C12_OneMessagePerFailedCall ==
    (BatchDone /\ ret.kind = "AICheckError") =>
        LET rank(t) == Cardinality({u \in AgentErrors : u <= t}) IN
        /\ ret.msg = Join(ai_errors)
        /\ Len(ai_errors) = Cardinality(AgentErrors)
        /\ AgentErrors # {}
        /\ \A t \in AgentErrors : ai_errors[rank(t)] = task[t].result.msg
        /\ \A t \in AgentErrors :
               Count(ai_errors, task[t].result.msg)
                   = Cardinality({u \in AgentErrors :
                                      task[u].result.msg = task[t].result.msg})

C12_Witness ==
    /\ BatchDone
    /\ ret.kind = "AICheckError"
    /\ AgentErrors = {1, 2, 3}
    /\ task[1].result.msg = task[3].result.msg
    /\ task[2].result.msg # task[1].result.msg
    /\ Count(ai_errors, task[1].result.msg) = 2

----------------------------------------------------------------------------
\* the check of task t is switched off: no credential, or its role disabled
SwitchedOff(t) == ~apiKey \/ (promptConfig.dict /\ ~Enabled(Role(t)))

(* C13: when no model credential is configured, or the role of an agent
   check is disabled by the prompt configuration, the check never has a
   completion request in flight, it returns the empty issue list, and a
   direct call has issued no request and received no reply at all. *)
C13_NoRequestWhenSwitchedOff ==
    /\ \A t \in Tasks :
           SwitchedOff(t) =>
               /\ task[t].pc \in {"idle", "start", "done", "joined"}
               /\ task[t].retry_count = 0
               /\ task[t].pc \in {"done", "joined"} => task[t].result = Returned(<<>>)
    /\ (DirectStarted /\ SwitchedOff(DirectTask)) =>
           /\ nreq = 0 /\ hist = <<>>
           /\ pc = "done" => ret = Returned(<<>>)

C13_Witness ==
    /\ DirectDone
    /\ apiKey /\ promptConfig.dict
    /\ DirectTask = 2 /\ ~Enabled("punct") /\ Enabled("typo")
    /\ ret = Returned(<<>>)
    /\ nreq = 0

----------------------------------------------------------------------------
\* how many identifiers handled so far came out as one of the given outcomes
Outcomes(whats) == Cardinality({i \in 1..Len(log) : log[i].outcome \in whats})

(* C14: bulk mode handles the given identifiers one at a time in the given
   order; an identifier with no row, or whose batch check or commit fails,
   adds one to the failed counter and the loop goes on with the next
   identifier; succeeded plus failed is the number of identifiers handled,
   hence N on return; an identifier is counted as succeeded exactly if its
   result was stored and committed. *)
C14_BulkCounts ==
    mode = "bulk" =>
        /\ Len(log) = id_index
        /\ \A i \in 1..Len(log) : log[i].id = submission_ids[i]
        /\ success_count = Outcomes({"stored"})
        /\ failed_count = Outcomes({"not_found", "check_failed", "error"})
        /\ success_count + failed_count = id_index
        /\ pc = "returned" => success_count + failed_count = Len(submission_ids)
        /\ pc \in {"fetch", "returned"} =>
               ret = Pending /\ \A t \in Tasks : task[t] = IdleTask
        /\ \A i \in 1..Len(log) :
               /\ log[i].id \notin DOMAIN db => log[i].outcome \in {"not_found", "error"}
               /\ log[i].outcome = "stored" =>
                      /\ db[log[i].id].status = "checked"
                      /\ db[log[i].id].check_result # <<>>
        /\ \A id \in DOMAIN db :
               db[id] # Database[id] => \E i \in 1..Len(log) : log[i] = Outcome(id, "stored")
        /\ pc # "returned" => ENABLED NextBulk

C14_Witness ==
    /\ mode = "bulk"
    /\ pc = "returned"
    /\ submission_ids = <<1, 2>>
    /\ log = <<Outcome(1, "check_failed"), Outcome(2, "stored")>>
    /\ db[2].check_result[1].total_issues = 1
    /\ db[1] = Database[1]
    /\ success_count = 1 /\ failed_count = 1

----------------------------------------------------------------------------
(* C15 as claimed: once the consumer of a stream has disconnected, no model
   completion request is issued any more. *)
C15_AsStated == mode = "stream" => ~late

----------------------------------------------------------------------------
(* C16 as claimed: an agent check that has been called eventually returns
   or raises, even when the model collaborator never replies. *)
C16_AsStated == (mode = "agent" /\ pc = "wait") ~> (pc = "done")

----------------------------------------------------------------------------
\* the line of the current iteration has been scanned
Scanned == mode = "rule" /\ scan_pc = "scanned"

(* C17 as claimed: the original of every issue the rule scanner emits for a
   line occurs verbatim in that line. *)
C17_AsStated ==
    Scanned => \A i \in 1..Len(emitted) : Contains(line, emitted[i].original)

(* C17, what the scanner guarantees: the original of every issue of a line
   occurs verbatim in the line, except for the issue of the sequence rule,
   whose original is the line's number followed by an ASCII dot whatever mark
   follows the number in the line. *)
C17_OriginalOccursButForSequence ==
    Scanned =>
        \A i \in 1..Len(emitted) :
            \/ Contains(line, emitted[i].original)
            \/ /\ i = Len(emitted)
               /\ On("check_number_sequence")
               /\ number_match(line) # <<>>
               /\ line[Len(number_match(line)) + 1] \in {"dun", "ju"}
               /\ emitted[i].original = str(int(number_match(line))) \o <<".">>
               /\ emitted[i].suggestion = str(last_number) \o <<".">>

C17_Witness ==
    /\ Scanned
    /\ current_section = "W"
    /\ line = <<"1", "dun", "zi", "ju">>
    /\ Len(emitted) = 2
    /\ emitted[1].original = <<"1", "dun">>
    /\ emitted[2].original = <<"1", ".">>
    /\ emitted[2].suggestion = <<"2", ".">>

----------------------------------------------------------------------------
\* the line starts with one of the markers that are not the canonical "N.":
\* what the format issue of the marker is to replace, and by what
NonCanonical(ln) ==
    LET n1 == Lead(ln, Digits)
        g1 == Take(ln, n1)
        rest == Drop(ln, n1)
        inner == IF ln = <<>> THEN 0 ELSE Lead(Tail(ln), Digits)
        num == SubSeq(ln, 2, inner + 1)
        closed(open, close) ==
            ln # <<>> /\ Head(ln) = open /\ inner > 0
            /\ Len(ln) >= inner + 2 /\ ln[inner + 2] = close
        n2 == IF n1 > 0 /\ rest # <<>> /\ Head(rest) = "." THEN Lead(Tail(rest), Digits) ELSE 0
        dup == Take(ln, n1 + 1 + n2)
        dot2 == Len(ln) > Len(dup) /\ ln[Len(dup) + 1] = "."
        tail3 == Take(Drop(ln, Len(dup) + (IF dot2 THEN 1 ELSE 0)), 3)
        blanks == IF n1 > 0 /\ rest # <<>> /\ Head(rest) = "." THEN Lead(Tail(rest), {"s"}) ELSE 0
        none == [is |-> FALSE, original |-> <<>>, suggestion |-> <<>>]
        some(o, s) == [is |-> TRUE, original |-> o, suggestion |-> s]
    IN  IF n1 > 0 /\ n2 > 0
        THEN some(dup \o (IF dot2 THEN <<".">> ELSE <<>>) \o tail3, g1 \o <<".">> \o tail3)
        ELSE IF n1 > 0 /\ rest # <<>> /\ Head(rest) \in {"dun", "ju"}
        THEN some(Take(ln, n1 + 1), g1 \o <<".">>)
        ELSE IF closed("(", ")") \/ closed("lp", "rp")
        THEN some(Take(ln, inner + 2), num \o <<".">>)
        ELSE IF n1 > 0 /\ blanks > 0
        THEN some(Take(ln, n1 + 1 + blanks), g1 \o <<".">>)
        ELSE none

(* C20 as claimed: with the numbering-format rule enabled, a line inside a
   section that starts with a non-canonical marker yields a format issue
   whose original is the marker (with the trailing text the rule captures)
   and whose suggestion is the canonical "N." (with the same trailing
   text). *)
C20_AsStated ==
    (Scanned /\ On("check_number_format") /\ current_section # ""
        /\ "W" \notin Range(line) /\ "N" \notin Range(line)
        /\ NonCanonical(line).is) =>
        \E i \in 1..Len(emitted) :
            /\ emitted[i].type = "format"
            /\ emitted[i].original = NonCanonical(line).original
            /\ emitted[i].suggestion = NonCanonical(line).suggestion

(* C20, what the scanner does: the format issue of the marker is emitted
   exactly for the markers that start with a digit; a line that starts with a
   parenthesis is not a numbered line and is given the issue of the
   missing-number rule, if that rule is enabled, and no issue otherwise. *)
C20_DigitMarkersOnly ==
    (Scanned /\ On("check_number_format") /\ current_section # ""
        /\ "W" \notin Range(line) /\ "N" \notin Range(line)
        /\ NonCanonical(line).is) =>
        IF Head(line) \in Digits
        THEN /\ emitted # <<>>
             /\ emitted[1].type = "format"
             /\ emitted[1].original = NonCanonical(line).original
             /\ emitted[1].suggestion = NonCanonical(line).suggestion
        ELSE emitted = IF On("check_missing_number")
                       THEN MissingNumberIssue(line, emitted[1].location)
                       ELSE <<>>

C20_Witness ==
    /\ Scanned
    /\ current_section = "W"
    /\ line = <<"1", ".", "1", ".", "zi", "ju">>
    /\ On("check_number_format")
    /\ emitted[1].original = line
    /\ emitted[1].suggestion = <<"1", ".", "zi", "ju">>
----------------------------------------------------------------------------
SplitDone == mode = "split" /\ pc = "done"

\* the places of keyword k in the text
Places(k) == {i \in 1..Len(content) : content[i] = k}

(* C19 as claimed: the splitter returns two sections exactly if each of the
   two heading keywords occurs exactly once in the text; then the first
   section contains the first heading, the second begins with the second
   heading, and both are trimmed; otherwise it returns the whole text as its
   only section. *)
C19_AsStated ==
    SplitDone =>
        /\ Len(sections) \in {1, 2}
        /\ Len(sections) = 2 <=> (Cardinality(Places("W")) = 1 /\ Cardinality(Places("N")) = 1)
        /\ Len(sections) = 2 =>
               /\ "W" \in Range(sections[1])
               /\ Head(sections[2]) = "N"
               /\ sections[1] = Strip(sections[1])
               /\ sections[2] = Strip(sections[2])
        /\ Len(sections) = 1 => sections = <<content>>

(* C19, what the splitter does: it returns two sections exactly if the
   second heading keyword occurs exactly once and the first at least once,
   wherever it stands; then the first section is the trimmed text before the
   second keyword (it contains the first heading exactly if a first heading
   stands before the second keyword, and may be empty) and the second is the
   second keyword followed by the trimmed text after it; otherwise it returns
   the whole text, untrimmed, as its only section. *)
C19_SplitAtSecondHeading ==
    SplitDone =>
        /\ Len(sections) \in {1, 2}
        /\ Len(sections) = 2 <=> (Places("W") # {} /\ Cardinality(Places("N")) = 1)
        /\ Len(sections) = 2 =>
               LET n == CHOOSE i \in Places("N") : TRUE IN
               /\ sections[1] = Strip(SubSeq(content, 1, n - 1))
               /\ sections[2] = <<"N">> \o Strip(SubSeq(content, n + 1, Len(content)))
               /\ "W" \in Range(sections[1]) <=> \E i \in Places("W") : i < n
               /\ "N" \notin Range(sections[1])
        /\ Len(sections) = 1 => sections = <<content>>

C19_Witness ==
    /\ SplitDone
    /\ content = <<"s", "W", "N", "W">>
    /\ sections = << <<"W">>, <<"N", "W">> >>

----------------------------------------------------------------------------
\* an issue built by an agent or handed on by an orchestrator
WellFormed(i) == i.original # "" /\ i.suggestion # "" /\ i.original # i.suggestion

\* an issue built by the rule scanner from the characters of a line
WellFormedRule(i) ==
    i.original # <<>> /\ i.suggestion # <<>> /\ i.original # i.suggestion

AllWellFormed(issues) == \A i \in 1..Len(issues) : WellFormed(issues[i])

\* the reply a finished direct agent call was computed from
LastReply == _extract_json(hist[Len(hist)])

(* C18: every issue of a batch result, of a stream's done result, of an
   agent's returned list and of the rule scanner's output has a non-empty
   original, a non-empty suggestion and an original that differs from the
   suggestion; an agent returns an issue for exactly the reply entries that
   satisfy this, the others are left out of its list. *)
C18_IssuesWellFormed ==
    /\ (mode = "batch" /\ ret.kind = "list") => AllWellFormed(ret.issues)
    /\ \A n \in 1..Len(events) :
           events[n].step = "done" /\ events[n].result # <<>>
               => AllWellFormed(events[n].result[1].issues)
    /\ \A t \in Tasks : task[t].result.kind = "list" => AllWellFormed(task[t].result.issues)
    /\ \A n \in 1..Len(emitted) : WellFormedRule(emitted[n])
    /\ (mode = "agent" /\ pc = "done" /\ ret.kind = "list" /\ hist # <<>> /\ LastReply.found)
           => LET entries == LastReply.json.issues IN
              { <<ret.issues[n].location, ret.issues[n].original, ret.issues[n].suggestion>> :
                    n \in 1..Len(ret.issues) }
              = { <<entries[n].location, entries[n].original, entries[n].suggestion>> :
                    n \in {m \in 1..Len(entries) : WellFormed(entries[m])} }

C18_Witness ==
    /\ mode = "agent" /\ pc = "done" /\ ret.kind = "list"
    /\ hist # <<>>
    /\ hist[Len(hist)] = Reply("bare", ObjJson(<<Entry("W1", "a", "a"), Entry("N1", "c", "d")>>), FALSE)
    /\ Len(ret.issues) = 1
    /\ ret.issues[1].original = "c"

----------------------------------------------------------------------------
\* the line of the current iteration is an itemized line: it is not a heading
\* and starts with a digit
ItemLine ==
    /\ Scanned
    /\ line # <<>>
    /\ "W" \notin Range(line) /\ "N" \notin Range(line)
    /\ Head(line) \in Digits

\* the shortest suffix of q, of one character or more, that occurs once in q
ShortestUniqueSuffix(q) ==
    LET lengths == {n \in 1..Len(q) : str_count(q, Suffix(q, n)) = 1}
    IN  Suffix(q, CHOOSE n \in lengths : \A k \in lengths : n <= k)

(* C21 as claimed: an itemized line whose last character is a CJK semicolon,
   an ASCII period or a CJK exclamation mark yields a punctuation issue whose
   original is the shortest suffix of the line that occurs exactly once in
   the line (the trailing mark alone when it occurs only once) and whose
   suggestion is that suffix with its last character replaced by the CJK
   full stop. *)
C21_AsStated ==
    (ItemLine /\ On("check_ending_punctuation") /\ line[Len(line)] \in {"fen", ".", "tan"}) =>
        LET suffix == ShortestUniqueSuffix(line) IN
        \E i \in 1..Len(emitted) :
            /\ emitted[i].type = "punctuation"
            /\ emitted[i].original = suffix
            /\ emitted[i].suggestion = Take(suffix, Len(suffix) - 1) \o <<"ju">>

----------------------------------------------------------------------------
\* the ASCII colons of the line that do not stand between two digits
OpenColons ==
    {p \in 1..Len(line) :
        /\ line[p] = ":"
        /\ ~(p > 1 /\ p < Len(line) /\ line[p - 1] \in Digits /\ line[p + 1] \in Digits)}

\* the issues of the line that replace an ASCII colon by the CJK colon
ColonIssues ==
    {i \in 1..Len(emitted) :
        /\ emitted[i].type = "punctuation"
        /\ emitted[i].original = <<":">>
        /\ emitted[i].suggestion = <<"mao">>}

(* C22: with every rule enabled, an itemized line gets one ':' to CJK colon
   punctuation issue for each of its ASCII colons that does not stand
   between two digits, and none for a colon between two digits: a line whose
   colons all stand between digits gets no such issue. *)
C22_ColonUnlessBetweenDigits ==
    (ItemLine /\ rule_config = {}) => Cardinality(ColonIssues) = Cardinality(OpenColons)

C22_Witness ==
    /\ ItemLine /\ rule_config = {}
    /\ line = <<"1", ".", "1", ":", "2", ":", "zi", "ju">>
    /\ OpenColons = {6}
    /\ Cardinality(ColonIssues) = 1

----------------------------------------------------------------------------
\* the agent checks that have been created so far
Created == {t \in Tasks : task[t].pc # "idle"}

\* batch mode after the rule scanner has returned its list
BatchLaunched == mode = "batch" /\ pc # "start" /\ ruleOut.ok

C23_LaunchState ==
    mode = "batch" =>
        /\ pc = "start" <=> ruleOut = NotRun
        /\ ~BatchLaunched => Created = {}
        /\ BatchLaunched =>
               /\ Len(sections) \in {1, 2}
               /\ Created = 1..(2 * Len(sections))
               /\ \A s \in 1..Len(sections) :
                      Role(2 * s - 1) = "typo" /\ Role(2 * s) = "punct"

(* C23: batch mode runs the rule scanner once, at its start and never again,
   and once the scanner has returned there is exactly one agent check per
   section and role, 2 for one section and 4 for two; all of them are
   created in the step that follows the scanner, before any of them has
   taken a step of its own, and none is created later. *)
C23_OneScanThenAllLaunched ==
    /\ []C23_LaunchState
    /\ [][mode = "batch" =>
            /\ ruleOut' # ruleOut => (pc = "start" /\ ruleOut = NotRun)
            /\ \A t \in Tasks :
                   (task[t].pc = "idle" /\ task'[t].pc # "idle")
                       => /\ pc = "start"
                          /\ \A u \in Tasks : task[u].pc = "idle"
                          /\ \A v \in 1..(2 * Len(sections')) : task'[v].pc = "start"]_vars

\* the four agent checks of a text of two sections are in flight together
C23_Witness ==
    /\ BatchLaunched
    /\ Len(sections) = 2
    /\ \A t \in Tasks : task[t].pc = "call"

----------------------------------------------------------------------------
\* the issues of the line that renumber it from n to k
GapIssues(n, k) ==
    {i \in 1..Len(emitted) :
        /\ emitted[i].type = "format"
        /\ emitted[i].original = str(n) \o <<".">>
        /\ emitted[i].suggestion = str(k) \o <<".">>}

(* C24 as claimed: within a section, the k-th itemized line, whose leading
   number parses as n, gets a sequence issue that suggests the number k
   exactly if n differs from k; the first item of the section included. *)
C24_AsStated ==
    (ItemLine /\ current_section # "" /\ On("check_number_sequence")
        /\ number_match(line) # <<>>) =>
        LET n == int(number_match(line))
            k == item_index
        IN  /\ (\E m \in 1..9 : GapIssues(n, m) # {}) <=> (n # k)
            /\ (n # k) => GapIssues(n, k) # {}

----------------------------------------------------------------------------
\* a step of the scanner's loop that reads a line
ReadsLine == scan_pc = "read" /\ scan_pc' = "scanned"

IsHeading(ln) == "W" \in Range(ln) \/ "N" \in Range(ln)

(* C25 as claimed: the expected-number counter advances by exactly one on
   every itemized line (every non-empty line that starts with a digit),
   whatever number or mark the line carries, is reset at every section
   heading and is left alone by every other line. *)
C25_AsStated ==
    [][ReadsLine =>
          last_number' = IF line' = <<>> THEN last_number
                         ELSE IF IsHeading(line') THEN 0
                         ELSE IF Head(line') \in Digits THEN last_number + 1
                         ELSE last_number]_vars

(* C25, what the scanner does: the expected-number counter advances by
   exactly one on every itemized line whose leading number is directly
   followed by one of the marks . 、 。, whatever that number is, provided
   the sequence rule is enabled; an itemized line without such a mark
   leaves it unchanged, as does every line while the rule is disabled; it
   is reset at every section heading. *)
C25_AdvancesOnMarkedNumbers ==
    [][ReadsLine =>
          last_number' = IF line' = <<>> THEN last_number
                         ELSE IF IsHeading(line') THEN 0
                         ELSE IF /\ Head(line') \in Digits
                                 /\ On("check_number_sequence")
                                 /\ Lead(line', Digits) < Len(line')
                                 /\ line'[Lead(line', Digits) + 1] \in {".", "dun", "ju"}
                              THEN last_number + 1
                         ELSE last_number]_vars

\* the second item of a section has no mark behind its number: the counter
\* has stayed at one
C25_Witness ==
    /\ ItemLine
    /\ On("check_number_sequence")
    /\ current_section = "W"
    /\ item_index = 2
    /\ line = <<"1", "zi", "ju">>
    /\ last_number = 1

----------------------------------------------------------------------------
(* C26: the current section changes only at a line that contains a heading
   keyword, and every such line resets the item counter, the line counter
   and the expected-number counter; every issue of an itemized line is
   labeled with the section current at that line and the number of itemized
   lines since the last heading, that line included, and a missing-number
   issue with the number of content lines since the last heading, that line
   included. *)
C26_SectionsAndLabels ==
    [][IF ReadsLine
       THEN LET ln == line'
                heading == ln # <<>> /\ IsHeading(ln)
                content_line == ln # <<>> /\ ~IsHeading(ln)
                item == content_line /\ Head(ln) \in Digits
            IN  /\ current_section' # current_section => heading
                /\ heading =>
                       /\ current_section' \in {"W", "N"}
                       /\ current_section' \in Range(ln)
                       /\ item_index' = 0
                       /\ line_index_in_section' = 0
                       /\ last_number' = 0
                       /\ emitted' = <<>>
                /\ ~heading =>
                       /\ item_index' = IF item THEN item_index + 1 ELSE item_index
                       /\ line_index_in_section' =
                              IF content_line /\ current_section # ""
                              THEN line_index_in_section + 1 ELSE line_index_in_section
                /\ item =>
                       \A i \in 1..Len(emitted') :
                           emitted'[i].location
                               = current_section \o "item" \o ToString(item_index + 1)
                /\ (content_line /\ ~item) =>
                       \A i \in 1..Len(emitted') :
                           /\ current_section # ""
                           /\ emitted'[i].suggestion = <<"1", ".">> \o emitted'[i].original
                           /\ emitted'[i].location
                                  = current_section \o "line"
                                        \o ToString(line_index_in_section + 1)
       ELSE UNCHANGED <<current_section, item_index, line_index_in_section, last_number>>]_vars

\* the second content line of the second section is its first item
C26_Witness ==
    /\ ItemLine
    /\ current_section = "N"
    /\ line_index_in_section = 2
    /\ item_index = 1
    /\ emitted # <<>>
    /\ \A i \in 1..Len(emitted) : emitted[i].location = "Nitem1"

----------------------------------------------------------------------------
\* how many characters the leading number of the line takes, its mark and the
\* blanks behind it included: ^\d+[.、。]\s*
NumberPrefix(ln) ==
    LET n1 == Lead(ln, Digits)
    IN  IF n1 > 0 /\ Len(ln) > n1 /\ ln[n1 + 1] \in {".", "dun", "ju"}
        THEN n1 + 1 + Lead(Drop(ln, n1 + 1), {"s"})
        ELSE 0

\* the places of the line's full stops that stand inside the item
InnerStops(ln) == {p \in (NumberPrefix(ln) + 1)..(Len(ln) - 1) : ln[p] = "ju"}

(* C27 as claimed: for each CJK full stop that is not the last character of
   an item (the leading number apart) an issue is emitted whose original
   contains that full stop, and occurs exactly once in the whole line or is
   the whole line, and whose suggestion is the original with that full stop
   replaced by a CJK semicolon. *)
C27_AsStated ==
    (ItemLine /\ On("check_mid_sentence_period")) =>
        \A p \in InnerStops(line) :
            \E i \in 1..Len(emitted) : \E o \in 1..p :
                /\ emitted[i].type = "punctuation"
                /\ OccursAt(line, emitted[i].original, o)
                /\ p <= o + Len(emitted[i].original) - 1
                /\ str_count(line, emitted[i].original) = 1 \/ emitted[i].original = line
                /\ emitted[i].suggestion = [emitted[i].original EXCEPT ![p - o + 1] = "fen"]

----------------------------------------------------------------------------
\* the stream of a request that batch mode has answered has ended
BothDone == mode = "stream" /\ prior # <<>> /\ pc = "done"

(* C28: for the same text and the same configuration, when no agent call
   fails and every agent call returns in the stream the list it returned in
   batch mode, the result carried by the stream's done event equals the
   result batch mode returned: the same issues in the same order, and the
   same count. *)
C28_StreamEqualsBatch ==
    BothDone =>
        /\ ruleOut = prior[1].rule
        /\ \A t \in Launched : task[t].result = prior[1].results[t]
        /\ events[Len(events)]
               = Event("done", "completed", "", <<CheckResult(prior[1].issues)>>)
        /\ events[Len(events)].result[1].total_issues = Len(prior[1].issues)

\* a text of two sections: the scanner and agents of both sections have
\* contributed, and an issue reported twice has been dropped
C28_Witness ==
    /\ BothDone
    /\ Len(sections) = 2
    /\ Len(prior[1].rule.issues) = 2
    /\ prior[1].results[2].issues # <<>>
    /\ prior[1].results[3].issues # <<>>
    /\ prior[1].results[2].issues[1].original # prior[1].results[3].issues[1].original
    /\ Len(all_issues) > Len(prior[1].issues)
    /\ events[Len(events)].result[1].issues = prior[1].issues

----------------------------------------------------------------------------
(* Checks of stored submissions next to update_submission (SpecStore) *)

\* the step in which check_submission or bulk mode leaves combined_check behind
StoreStep == mode \in {"bulk", "single"} /\ pc = "done" /\ pc' # "done"

\* the identifier the check is working on
Current == submission_ids[id_index + 1]

(* C29: after any interleaving of a check of a stored submission with
   update_submission on the same submission, a submission whose status is
   "checked" carries a check_result computed from its current texts: every
   step that writes a row and leaves it "checked" has checked the text
   composed from the row's weekly_work and next_week_plan as they are stored
   after the step. *)
C29_AsStated ==
    [][\A id \in DOMAIN db :
          (db'[id] # db[id] /\ db'[id].status = "checked")
              => content = Compose(db'[id].weekly_work, db'[id].next_week_plan)]_vars

(* C30: when the batch check of a stored submission ends with AICheckError,
   in check_submission or in bulk mode, the stored rows are left as they
   are; a check writes a result or the status "checked" only in the step
   that follows a returned list, only to the row under check, and the result
   written has total_issues equal to the number of its issues and holds the
   returned issues; a check never touches the texts or sets another status. *)
C30_WrittenOnlyOnSuccess ==
    [][/\ (StoreStep /\ ret.kind # "list") => db' = db
       /\ StoreStep =>
            \A id \in DOMAIN db :
               /\ db'[id].weekly_work = db[id].weekly_work
               /\ db'[id].next_week_plan = db[id].next_week_plan
               /\ db'[id].status \in {db[id].status, "checked"}
       /\ \A id \in DOMAIN db :
            \/ db'[id].check_result \in {db[id].check_result, <<>>}
                 /\ (db'[id].status = db[id].status \/ db'[id].status # "checked")
            \/ /\ StoreStep
               /\ ret.kind = "list"
               /\ id = Current
               /\ db'[id].check_result # <<>> =>
                    /\ db'[id].check_result[1].total_issues
                         = Len(db'[id].check_result[1].issues)
                    /\ db'[id].check_result \in
                         {db[id].check_result, <<CheckResult(ret.issues)>>}]_vars

\* bulk mode has stored the result of one identifier and met AICheckError for
\* another, whose row is as it was created
C30_Witness ==
    /\ mode = "bulk"
    /\ \E i, j \in 1..Len(log) :
          /\ log[i].outcome = "stored"
          /\ db[log[i].id].status = "checked"
          /\ db[log[i].id].check_result # <<>>
          /\ log[j].outcome = "check_failed"
          /\ log[j].id # log[i].id
          /\ db[log[j].id] = Database[log[j].id]

====
